---- MODULE Spec2Model ----
(***************************************************************************)
(* Binary decoders of the kitopizzas viewers: the MDL model loader         *)
(* (src/viewer/mdl_loader.py), the WMB world loader                        *)
(* (src/viewer/wmb_loader.py) and the consumers of what they decode.       *)
(*                                                                         *)
(* A file is a sequence of bytes.  struct.unpack_from raises struct.error  *)
(* when the span it is asked for does not fit the buffer; a slice          *)
(* data[a:b] never raises and is cut at the end of the buffer.  A load     *)
(* call is a sequence of steps, one per loop iteration of the loader; it   *)
(* ends with pc = "returned" or, when an exception leaves it, with         *)
(* pc = "raised" and the exception's type in exc.                          *)
(*                                                                         *)
(* Spec      decode calls on model files and the geometry built from them  *)
(* SpecWmb   decode calls on world files and the triangles of their faces  *)
(* SpecFace  the rebuilding of one face from a run of surfedges            *)
(* SpecCall  decode calls of models and worlds one after the other, with   *)
(*           the outcome of an earlier call remembered                     *)
(***************************************************************************)
EXTENDS Integers, Sequences, FiniteSets, TLC

VARIABLES
    data,       \* the bytes of the file being decoded (f.read())
    pc,         \* position of the running call
    offset,     \* the loader's local read offset
    idx,        \* index of the running loop
    exc,        \* "none", or the type of the exception that left the call
    log,        \* diagnostics printed by the running call
    mdl,        \* the MDL instance: header, skins, texcoords, skinverts, triangles, frames
    prev,       \* the buffer and the outcome of the previous decode call
    geom,       \* the element reads of the geometry built from the decoded model
    wmb,        \* the WMB instance: version, lists, textures, texinfo, vertices, edges, ...
    tris,       \* the triangles made of the faces of the decoded world
    face,       \* a run of surfedges over a list of edges, and what is rebuilt from it
    loc,        \* the locals of the running _load_mdl7: group, totals, merged lists
    view        \* a viewer: its files, the index of the current one, what it draws

vars == <<data, pc, offset, idx, exc, log, mdl, prev, geom, wmb, tris, face, loc, view>>

\* what a load call of an MDL instance does not touch
outside == <<prev, geom, wmb, tris, face, loc, view>>

\* what the MDL7 decoder, which has locals of its own, leaves alone
beyond == <<prev, geom, wmb, tris, face, view>>

\* what a load call of a WMB instance does not touch
outsideWmb == <<prev, geom, mdl, tris, face, loc, view>>

----------------------------------------------------------------------------
(* Bounds of the input files the model decodes.                            *)

MaxSkins == 1
MaxVerts == 2
MaxTris == 1
MaxFrames == 2
\* width and height of the skins of the input files
SkinW == 2
SkinH == 1
\* vertices of the ring of an input world
MaxLoop == 4
\* edges and length of the runs of surfedges rebuilt on their own
NumFaceEdges == 3
MaxRun == 3

----------------------------------------------------------------------------
(* Bytes, struct and slices.                                               *)

Min(a, b) == IF a < b THEN a ELSE b
Max(a, b) == IF a > b THEN a ELSE b

RECURSIVE Pow2(_)
Pow2(n) == IF n <= 0 THEN 1 ELSE 2 * Pow2(n - 1)

RECURSIVE Flatten(_)
Flatten(ss) == IF ss = <<>> THEN <<>> ELSE Head(ss) \o Flatten(Tail(ss))

\* struct.unpack_from(fmt, data, off) with calcsize(fmt) = size succeeds
CanUnpack(d, off, size) == off >= 0 /\ off + size <= Len(d)

\* data[a:b] for 0 <= a: cut at the end of the buffer, never an error
Slice(d, a, b) ==
    LET lo == Min(a, Len(d))
        hi == Min(Max(b, lo), Len(d))
    IN  SubSeq(d, lo + 1, hi)

\* '<B', '<H', '<h', '<I' at a 0-based offset
U8(d, off) == d[off + 1]
U16(d, off) == d[off + 1] + 256 * d[off + 2]
S16(d, off) == IF U16(d, off) >= 32768 THEN U16(d, off) - 65536 ELSE U16(d, off)
U32(d, off) ==
    d[off + 1] + 256 * d[off + 2] + 65536 * d[off + 3] + 16777216 * d[off + 4]

\* '<i' at a 0-based offset
S32(d, off) ==
    d[off + 1] + 256 * d[off + 2] + 65536 * d[off + 3]
    + 16777216 * (IF d[off + 4] >= 128 THEN d[off + 4] - 256 ELSE d[off + 4])

\* Fixed point: a float x is held as the integer x * FxOne.
FxBits == 8
FxOne == Pow2(FxBits)

\* '<f' at a 0-based offset: sign, 8-bit exponent, 23-bit mantissa
F32(d, off) ==
    LET s == d[off + 4] \div 128
        e == (d[off + 4] % 128) * 2 + d[off + 3] \div 128
        m == (d[off + 3] % 128) * 65536 + d[off + 2] * 256 + d[off + 1]
        sh == e - 150 + FxBits
        mag == IF e = 0 THEN 0
               ELSE IF sh >= 0 THEN (8388608 + m) * Pow2(sh)
               ELSE IF sh < -24 THEN 0
               ELSE (8388608 + m) \div Pow2(-sh)
    IN  IF s = 1 THEN -mag ELSE mag

F32x3(d, off) == <<F32(d, off), F32(d, off + 4), F32(d, off + 8)>>

\* bytes.strip(b'\x00'): leading and trailing NUL bytes removed
RECURSIVE StripLeft(_)
StripLeft(s) == IF s # <<>> /\ Head(s) = 0 THEN StripLeft(Tail(s)) ELSE s
RECURSIVE StripRight(_)
StripRight(s) ==
    IF s # <<>> /\ s[Len(s)] = 0 THEN StripRight(SubSeq(s, 1, Len(s) - 1)) ELSE s
StripNul(s) == StripRight(StripLeft(s))

\* bytes.strip(b'\x00') of the n bytes at a 0-based offset
Str(d, off, n) == StripNul(SubSeq(d, off + 1, off + n))

----------------------------------------------------------------------------
(* The MDL instance.                                                       *)

\* self.header = {} of MDL.__init__
EmptyHeader ==
    [ident |-> <<>>, version |-> 0, scale |-> <<0, 0, 0>>, translate |-> <<0, 0, 0>>,
     num_skins |-> 0, skinwidth |-> 0, skinheight |-> 0, num_verts |-> 0,
     num_tris |-> 0, num_frames |-> 0, num_skinverts |-> 0]

MDL_new ==
    [header |-> EmptyHeader, skins |-> <<>>, texcoords |-> <<>>, skinverts |-> <<>>,
     triangles |-> <<>>, frames |-> <<>>]

\* nothing remembered of an earlier call
NoPrev ==
    [now |-> "none", set |-> FALSE, kind |-> "none", data |-> <<>>, out |-> <<>>,
     exc |-> "none", log |-> {}]

\* the locals of _load_mdl7 before its first group
NoLoc ==
    [group_idx |-> 0, all_skinverts |-> <<>>, all_triangles |-> <<>>,
     vertex_offset |-> 0, skinvert_offset |-> 0,
     num_skins |-> 0, num_stpts |-> 0, num_tris |-> 0, num_verts |-> 0,
     num_frames |-> 0, group_verts |-> <<>>]

\* no run of surfedges
NoFace ==
    [edges |-> <<>>, surfedges |-> <<>>, first_edge |-> 0, num_verts |-> 0, at |-> 0,
     contributions |-> <<>>, vertices |-> <<>>,
     contributions_negated |-> <<>>, vertices_negated |-> <<>>, done |-> FALSE]

\* no viewer: no files, nothing built, nothing drawn
NoView ==
    [files |-> <<>>, current_index |-> 0, show_file_list |-> FALSE,
     list_scroll_offset |-> 0, load_error |-> FALSE, render_batches |-> <<>>,
     frame_index |-> 0, action |-> "none", drawn |-> <<>>, draw_exc |-> "none",
     event |-> [type |-> "none", key |-> "none", button |-> 0, pos |-> <<0, 0>>]]

Finished == pc \in {"returned", "raised"}

\* the call is over and what was made of its result is too
CallOver == pc \in {"returned", "raised", "built", "build_raised", "triangulated"}

\* An exception leaves the call: the instance keeps what was appended so far.
Raise(kind) ==
    /\ pc' = "raised"
    /\ exc' = kind

\* MDL.__init__ with skins a list of the class, shared by the instances
MDL_init_shared ==
    /\ CallOver
    /\ mdl' = [MDL_new EXCEPT !.skins = mdl.skins]
    /\ pc' = "constructed"
    /\ exc' = "none"
    /\ log' = {}
    /\ offset' = 0
    /\ idx' = 0
    /\ data' = <<>>
    /\ loc' = NoLoc

\* MDL.__init__
MDL_init ==
    /\ CallOver
    /\ mdl' = MDL_new
    /\ pc' = "constructed"
    /\ exc' = "none"
    /\ log' = {}
    /\ offset' = 0
    /\ idx' = 0
    /\ data' = <<>>
    /\ loc' = NoLoc


----------------------------------------------------------------------------
(* Sections of a load call: a `for _ in range(n)` loop is entered when n   *)
(* is positive and skipped otherwise.                                      *)

IdpoOrder == <<"idpo_skins", "idpo_texcoords", "idpo_tris", "idpo_frames">>
Mdl345Order == <<"mdl345_skins", "mdl345_skinverts", "mdl345_tris", "mdl345_frames">>
RootOrder == <<"root_skins", "root_texcoords", "root_tris", "root_frames">>

\* range(n) of the loop of a section
Count(sec, h) ==
    CASE sec \in {"idpo_skins", "mdl345_skins", "root_skins"} -> h.num_skins
      [] sec \in {"idpo_texcoords", "root_texcoords"} -> h.num_verts
      [] sec = "mdl345_skinverts" -> h.num_skinverts
      [] sec \in {"idpo_tris", "mdl345_tris", "root_tris"} -> h.num_tris
      [] sec \in {"idpo_frames", "mdl345_frames", "root_frames"} -> h.num_frames

\* the first loop from position k on that has an iteration to run
RECURSIVE Enter(_, _, _)
Enter(order, k, h) ==
    IF k > Len(order) THEN "returned"
    ELSE IF Count(order[k], h) > 0 THEN order[k]
    ELSE Enter(order, k + 1, h)

\* end of one iteration of loop k of the order
Advance(order, k, h) ==
    IF idx + 1 < Count(order[k], h)
    THEN pc' = order[k] /\ idx' = idx + 1
    ELSE pc' = Enter(order, k + 1, h) /\ idx' = 0

----------------------------------------------------------------------------
(* MDL.load and the Quake-style decoder, src/viewer/mdl_loader.py          *)

TagIDPO == <<73, 68, 80, 79>>
TagMDL3 == <<77, 68, 76, 51>>
TagMDL4 == <<77, 68, 76, 52>>
TagMDL5 == <<77, 68, 76, 53>>
TagMDL7 == <<77, 68, 76, 55>>

\* struct.calcsize('<4sI 3f 3f f 3f I I I I I I I I f')
IdpoHeaderSize == 84

\* MDL.load: read the file, peek the ident, dispatch
MDL_load(Inputs) ==
    /\ pc = "constructed"
    /\ \E d \in Inputs :
        /\ data' = d
        /\ IF ~CanUnpack(d, 0, 4)
           THEN Raise("struct.error") /\ UNCHANGED log
           ELSE LET ident == SubSeq(d, 1, 4)
                IN  /\ exc' = "none"
                    /\ IF ident = TagIDPO THEN pc' = "idpo" /\ UNCHANGED log
                       ELSE IF ident \in {TagMDL3, TagMDL4, TagMDL5}
                            THEN pc' = "mdl345" /\ UNCHANGED log
                       ELSE IF ident = TagMDL7 THEN pc' = "mdl7" /\ UNCHANGED log
                       ELSE pc' = "returned" /\ log' = log \cup {"Not a valid MDL file"}
    /\ UNCHANGED <<offset, idx, mdl, outside>>

\* MDL.load on an instance that has loaded a file before: nothing of the
\* instance is reset, the decoders start from what it holds
MDL_load_again(Inputs) ==
    /\ pc \in {"returned", "raised"}
    /\ \E d \in Inputs :
        /\ data' = d
        /\ IF ~CanUnpack(d, 0, 4)
           THEN Raise("struct.error") /\ UNCHANGED log
           ELSE LET ident == SubSeq(d, 1, 4)
                IN  /\ exc' = "none"
                    /\ IF ident = TagIDPO THEN pc' = "idpo" /\ UNCHANGED log
                       ELSE IF ident \in {TagMDL3, TagMDL4, TagMDL5}
                            THEN pc' = "mdl345" /\ UNCHANGED log
                       ELSE IF ident = TagMDL7 THEN pc' = "mdl7" /\ UNCHANGED log
                       ELSE pc' = "returned" /\ log' = log \cup {"Not a valid MDL file"}
    /\ offset' = 0
    /\ idx' = 0
    /\ loc' = NoLoc
    /\ UNCHANGED mdl

\* _load_idpo: the 84-byte header
MDL_load_idpo_header ==
    /\ pc = "idpo"
    /\ IF ~CanUnpack(data, 0, IdpoHeaderSize)
       THEN Raise("struct.error") /\ UNCHANGED <<offset, idx, mdl>>
       ELSE LET h == [ident |-> SubSeq(data, 1, 4),
                      version |-> U32(data, 4),
                      scale |-> F32x3(data, 8),
                      translate |-> F32x3(data, 20),
                      num_skins |-> U32(data, 48),
                      skinwidth |-> U32(data, 52),
                      skinheight |-> U32(data, 56),
                      num_verts |-> U32(data, 60),
                      num_tris |-> U32(data, 64),
                      num_frames |-> U32(data, 68),
                      num_skinverts |-> 0]
            IN  /\ mdl' = [mdl EXCEPT !.header = h]
                /\ offset' = IdpoHeaderSize
                /\ pc' = Enter(IdpoOrder, 1, h)
                /\ idx' = 0
                /\ UNCHANGED exc
    /\ UNCHANGED <<data, log, outside>>

\* a single skin of w*h*bpp bytes: the slice is cut at the end of the buffer
SingleSkin(kind, off, size) == [type |-> kind, data |-> Slice(data, off, off + size)]

\* _load_idpo: one iteration of the skins loop
MDL_load_idpo_skin ==
    /\ pc = "idpo_skins"
    /\ LET h == mdl.header
           width == h.skinwidth
           height == h.skinheight
       IN  IF ~CanUnpack(data, offset, 4)
           THEN Raise("struct.error") /\ UNCHANGED <<offset, idx, mdl, log>>
           ELSE LET skin_type == U32(data, offset)
                    off == offset + 4
                    bpp == CASE skin_type = 0 -> 1
                             [] skin_type = 2 -> 2
                             [] skin_type = 3 -> 2
                             [] skin_type = 4 -> 3
                             [] skin_type = 5 -> 4
                             [] OTHER -> 0
                    kind == CASE skin_type = 0 -> "single_8bit"
                              [] skin_type = 2 -> "single_16bit"
                              [] skin_type = 3 -> "single_16bit_4444"
                              [] skin_type = 4 -> "single_24bit_888"
                              [] skin_type = 5 -> "single_32bit_8888"
                              [] OTHER -> "none"
                IN  IF skin_type \in {0, 2, 3, 4, 5}
                    THEN /\ mdl' = [mdl EXCEPT !.skins =
                                        Append(@, SingleSkin(kind, off, width * height * bpp))]
                         /\ offset' = off + width * height * bpp
                         /\ Advance(IdpoOrder, 1, h)
                         /\ UNCHANGED <<exc, log>>
                    ELSE IF skin_type = 1
                    THEN IF ~CanUnpack(data, off, 4)
                         THEN Raise("struct.error") /\ UNCHANGED <<offset, idx, mdl, log>>
                         ELSE LET nb == U32(data, off)
                                  toff == off + 4
                                  size == width * height
                                  doff == toff + nb * 4
                              IN  IF ~CanUnpack(data, toff, nb * 4)
                                  THEN Raise("struct.error")
                                       /\ UNCHANGED <<offset, idx, mdl, log>>
                                  ELSE /\ mdl' = [mdl EXCEPT !.skins = Append(@,
                                            [type |-> "group",
                                             times |-> [j \in 1..nb |-> F32(data, toff + 4 * (j - 1))],
                                             data |-> [j \in 1..nb |->
                                                 Slice(data, doff + (j - 1) * size, doff + j * size)]])]
                                       /\ offset' = doff + nb * size
                                       /\ Advance(IdpoOrder, 1, h)
                                       /\ UNCHANGED <<exc, log>>
                    ELSE \* unknown code: the skin is skipped, nothing is consumed
                         /\ log' = log \cup {"Unknown skin type"}
                         /\ offset' = off
                         /\ Advance(IdpoOrder, 1, h)
                         /\ UNCHANGED <<exc, mdl>>
    /\ UNCHANGED <<data, outside>>

\* _load_idpo: one (onseam, s, t) of 12 bytes
MDL_load_idpo_texcoord ==
    /\ pc = "idpo_texcoords"
    /\ IF ~CanUnpack(data, offset, 12)
       THEN Raise("struct.error") /\ UNCHANGED <<offset, idx, mdl>>
       ELSE /\ mdl' = [mdl EXCEPT !.texcoords =
                Append(@, <<U32(data, offset), U32(data, offset + 4), U32(data, offset + 8)>>)]
            /\ offset' = offset + 12
            /\ Advance(IdpoOrder, 2, mdl.header)
            /\ UNCHANGED exc
    /\ UNCHANGED <<data, log, outside>>

\* _load_idpo: one (facesfront, v0, v1, v2) of 16 bytes
MDL_load_idpo_triangle ==
    /\ pc = "idpo_tris"
    /\ IF ~CanUnpack(data, offset, 16)
       THEN Raise("struct.error") /\ UNCHANGED <<offset, idx, mdl>>
       ELSE /\ mdl' = [mdl EXCEPT !.triangles =
                Append(@, <<U32(data, offset), U32(data, offset + 4),
                            U32(data, offset + 8), U32(data, offset + 12)>>)]
            /\ offset' = offset + 16
            /\ Advance(IdpoOrder, 3, mdl.header)
            /\ UNCHANGED exc
    /\ UNCHANGED <<data, log, outside>>

\* the scale of the first axis taken for all three
DequantOneScale(v_packed, h) ==
    <<v_packed[1] * h.scale[1] + h.translate[1],
      v_packed[2] * h.scale[1] + h.translate[2],
      v_packed[3] * h.scale[1] + h.translate[3]>>

\* packed * scale + translate on the three axes of a packed vertex
Dequant(v_packed, h) ==
    <<v_packed[1] * h.scale[1] + h.translate[1],
      v_packed[2] * h.scale[2] + h.translate[2],
      v_packed[3] * h.scale[3] + h.translate[3]>>

\* verts_data[i*4 : i*4+4]
PackedVert(verts_data, i) == Slice(verts_data, i * 4, i * 4 + 4)

FrameVertsShort(verts_data, num_verts, h) ==
    [i \in 1..(num_verts - 1) |-> Dequant(PackedVert(verts_data, i - 1), h)]

\* for i in range(num_verts): frame_verts.append((vx, vy, vz))
FrameVerts(verts_data, num_verts, h) ==
    [i \in 1..num_verts |-> Dequant(PackedVert(verts_data, i - 1), h)]

\* _load_frames_idpo: one iteration of the frames loop
MDL_load_frames_idpo ==
    /\ pc = "idpo_frames"
    /\ LET h == mdl.header
           num_verts == h.num_verts
       IN  IF ~CanUnpack(data, offset, 4)
           THEN Raise("struct.error") /\ UNCHANGED <<offset, idx, mdl, log>>
           ELSE IF U32(data, offset) # 0
           THEN \* group frame: print, return offset; _load_idpo then returns
                /\ log' = log \cup {"Group frame not implemented"}
                /\ offset' = offset + 4
                /\ pc' = "returned"
                /\ UNCHANGED <<idx, exc, mdl>>
           ELSE IF ~CanUnpack(data, offset + 4, 24)
           THEN Raise("struct.error") /\ offset' = offset + 4
                /\ UNCHANGED <<idx, mdl, log>>
           ELSE LET voff == offset + 28
                    verts_data == Slice(data, voff, voff + num_verts * 4)
                IN  /\ offset' = voff + num_verts * 4
                    /\ IF \E i \in 0..(num_verts - 1) : Len(PackedVert(verts_data, i)) < 3
                       THEN Raise("IndexError") /\ UNCHANGED <<idx, mdl, log>>
                       ELSE /\ mdl' = [mdl EXCEPT !.frames = Append(@,
                                [type |-> "single",
                                 name |-> StripNul(SubSeq(data, offset + 13, offset + 28)),
                                 bboxmin |-> SubSeq(data, offset + 5, offset + 8),
                                 bboxmax |-> SubSeq(data, offset + 9, offset + 12),
                                 verts |-> FrameVerts(verts_data, num_verts, h)])]
                            /\ Advance(IdpoOrder, 4, h)
                            /\ UNCHANGED <<exc, log>>
    /\ UNCHANGED <<data, outside>>


----------------------------------------------------------------------------
(* The Gamestudio single-mesh decoder (MDL3, MDL4, MDL5).                  *)

\* struct.calcsize('<4s I 3f 3f I 3f I I I I I I I I I')
Mdl345HeaderSize == 84

\* _load_mdl345: the 84-byte header
MDL_load_mdl345_header ==
    /\ pc = "mdl345"
    /\ IF ~CanUnpack(data, 0, Mdl345HeaderSize)
       THEN Raise("struct.error") /\ UNCHANGED <<offset, idx, mdl>>
       ELSE LET h == [ident |-> SubSeq(data, 1, 4),
                      version |-> 0,
                      scale |-> F32x3(data, 8),
                      translate |-> F32x3(data, 20),
                      num_skins |-> U32(data, 48),
                      skinwidth |-> U32(data, 52),
                      skinheight |-> U32(data, 56),
                      num_verts |-> U32(data, 60),
                      num_tris |-> U32(data, 64),
                      num_frames |-> U32(data, 68),
                      num_skinverts |-> U32(data, 72)]
            IN  /\ mdl' = [mdl EXCEPT !.header = h]
                /\ offset' = Mdl345HeaderSize
                /\ pc' = Enter(Mdl345Order, 1, h)
                /\ idx' = 0
                /\ UNCHANGED exc
    /\ UNCHANGED <<data, log, outside>>

\* bytes per pixel by skintype & 7; an unknown code is read as 1 byte per pixel
GsBpp(base_type) ==
    CASE base_type = 0 -> 1
      [] base_type = 2 -> 2
      [] base_type = 3 -> 2
      [] base_type = 4 -> 3
      [] base_type = 5 -> 4
      [] OTHER -> 1

GsSkinTypeStr(base_type) ==
    CASE base_type = 0 -> "single_8bit"
      [] base_type = 2 -> "single_16bit_565"
      [] base_type = 3 -> "single_16bit_4444"
      [] base_type = 4 -> "single_24bit_888"
      [] base_type = 5 -> "single_32bit_8888"
      [] OTHER -> "unknown"

\* the first two mipmap levels alone
MipmapBytesTwoLevels(w, h, bpp) ==
    (w \div 2) * (h \div 2) * bpp + (w \div 4) * (h \div 4) * bpp

\* the three mipmap levels that follow the base image
MipmapBytes(w, h, bpp) ==
    (w \div 2) * (h \div 2) * bpp + (w \div 4) * (h \div 4) * bpp
    + (w \div 8) * (h \div 8) * bpp

\* _load_mdl345: one iteration of the skins loop
MDL_load_mdl345_skin ==
    /\ pc = "mdl345_skins"
    /\ LET h == mdl.header
           is5 == h.ident = TagMDL5
       IN  IF ~CanUnpack(data, offset, 4)
           THEN Raise("struct.error") /\ UNCHANGED <<offset, idx, mdl, log>>
           ELSE LET skintype == U32(data, offset)
                    has_mipmaps == (skintype \div 8) % 2 = 1
                    base_type == skintype % 8
                    bpp == GsBpp(base_type)
                    off == offset + 4
                IN  IF is5 /\ ~CanUnpack(data, off, 8)
                    THEN /\ Raise("struct.error")
                         /\ offset' = off
                         /\ log' = IF base_type \in {0, 2, 3, 4, 5} THEN log
                                   ELSE log \cup {"Unknown skin type"}
                         /\ UNCHANGED <<idx, mdl>>
                    ELSE LET skin_width == IF is5 THEN U32(data, off) ELSE h.skinwidth
                             skin_height == IF is5 THEN U32(data, off + 4) ELSE h.skinheight
                             poff == IF is5 THEN off + 8 ELSE off
                             skin_size == skin_width * skin_height * bpp
                         IN  /\ mdl' = [mdl EXCEPT !.skins = Append(@,
                                    [type |-> GsSkinTypeStr(base_type),
                                     width |-> skin_width,
                                     height |-> skin_height,
                                     data |-> Slice(data, poff, poff + skin_size)])]
                             /\ offset' = poff + skin_size
                                    + (IF has_mipmaps
                                       THEN MipmapBytes(skin_width, skin_height, bpp) ELSE 0)
                             /\ log' = IF base_type \in {0, 2, 3, 4, 5} THEN log
                                       ELSE log \cup {"Unknown skin type"}
                             /\ Advance(Mdl345Order, 1, h)
                             /\ UNCHANGED exc
    /\ UNCHANGED <<data, outside>>

\* _load_mdl345: one (u, v) of two signed shorts
MDL_load_mdl345_skinvert ==
    /\ pc = "mdl345_skinverts"
    /\ IF ~CanUnpack(data, offset, 4)
       THEN Raise("struct.error") /\ UNCHANGED <<offset, idx, mdl>>
       ELSE /\ mdl' = [mdl EXCEPT !.skinverts =
                Append(@, <<S16(data, offset), S16(data, offset + 2)>>)]
            /\ offset' = offset + 4
            /\ Advance(Mdl345Order, 2, mdl.header)
            /\ UNCHANGED exc
    /\ UNCHANGED <<data, log, outside>>

\* struct.unpack_from('<3h3h', data, offset): index_xyz[3], index_uv[3]
UnpackTriangle345(d, off) ==
    [c \in 1..6 |-> S16(d, off + 2 * (c - 1))]

\* _load_mdl345: one triangle of six signed shorts
MDL_load_mdl345_triangle ==
    /\ pc = "mdl345_tris"
    /\ IF ~CanUnpack(data, offset, 12)
       THEN Raise("struct.error") /\ UNCHANGED <<offset, idx, mdl>>
       ELSE /\ mdl' = [mdl EXCEPT !.triangles = Append(@, UnpackTriangle345(data, offset))]
            /\ offset' = offset + 12
            /\ Advance(Mdl345Order, 3, mdl.header)
            /\ UNCHANGED exc
    /\ UNCHANGED <<data, log, outside>>

\* the three words of a vertex were the vertices 4 bytes apart
WordVertNarrow(verts_data, i) ==
    <<U16(verts_data, i * 4), U16(verts_data, i * 4 + 2), U16(verts_data, i * 4 + 4)>>

\* struct.unpack_from('<3HBB', verts_data, i*8): the three words of a vertex
WordVert(verts_data, i) ==
    <<U16(verts_data, i * 8), U16(verts_data, i * 8 + 2), U16(verts_data, i * 8 + 4)>>

\* _load_frames_mdl345: one iteration of the frames loop
MDL_load_frames_mdl345 ==
    /\ pc = "mdl345_frames"
    /\ LET h == mdl.header
           num_verts == h.num_verts
       IN  IF ~CanUnpack(data, offset, 4)
           THEN Raise("struct.error") /\ UNCHANGED <<offset, idx, mdl>>
           ELSE LET frame_type == U32(data, offset)
                    bbox_size == IF frame_type = 0 THEN 8 ELSE 16
                    noff == offset + 4 + bbox_size
                    voff == noff + 16
                    vert_size == IF frame_type = 0 THEN 4 ELSE 8
                    verts_data == Slice(data, voff, voff + num_verts * vert_size)
                IN  IF ~CanUnpack(data, offset + 4, bbox_size)
                    THEN Raise("struct.error") /\ offset' = offset + 4
                         /\ UNCHANGED <<idx, mdl>>
                    ELSE IF ~CanUnpack(data, noff, 16)
                    THEN Raise("struct.error") /\ offset' = noff
                         /\ UNCHANGED <<idx, mdl>>
                    ELSE IF frame_type = 0
                            /\ \E i \in 0..(num_verts - 1) : Len(PackedVert(verts_data, i)) < 3
                    THEN Raise("IndexError") /\ offset' = voff + num_verts * vert_size
                         /\ UNCHANGED <<idx, mdl>>
                    ELSE IF frame_type # 0
                            /\ \E i \in 0..(num_verts - 1) : ~CanUnpack(verts_data, i * 8, 8)
                    THEN Raise("struct.error") /\ offset' = voff + num_verts * vert_size
                         /\ UNCHANGED <<idx, mdl>>
                    ELSE /\ mdl' = [mdl EXCEPT !.frames = Append(@,
                                [type |-> "single",
                                 name |-> StripNul(SubSeq(data, noff + 1, noff + 16)),
                                 verts |-> IF frame_type = 0
                                           THEN FrameVerts(verts_data, num_verts, h)
                                           ELSE [i \in 1..num_verts |->
                                                    Dequant(WordVert(verts_data, i - 1), h)]])]
                         /\ offset' = voff + num_verts * vert_size
                         /\ Advance(Mdl345Order, 4, h)
                         /\ UNCHANGED exc
    /\ UNCHANGED <<data, log, outside>>

----------------------------------------------------------------------------
(* The MDL7 decoder, _load_mdl7 of src/viewer/mdl_loader.py.  Its counts   *)
(* are signed: an offset can move backwards and below zero, where          *)
(* unpack_from and slices count from the end of the buffer.                *)

\* the position struct.unpack_from reads at for an offset of either sign
At(d, off) == IF off < 0 THEN off + Len(d) ELSE off

\* struct.unpack_from(fmt, data, off) succeeds, for an offset of either sign
CanUnpackAt(d, off, size) == At(d, off) >= 0 /\ At(d, off) + size <= Len(d)

\* data[a:b] for indices of either sign
PySlice(d, a, b) ==
    LET lo == IF a < 0 THEN Max(a + Len(d), 0) ELSE Min(a, Len(d))
        hi == IF b < 0 THEN Max(b + Len(d), 0) ELSE Min(b, Len(d))
    IN  SubSeq(d, lo + 1, hi)

\* struct.calcsize('<4s i i i i i i 10H')
Mdl7HeaderSize == 48
\* struct.calcsize('<B B B B i 16s i i i i i')
Mdl7GroupSize == 44
\* struct.calcsize('<B 3B i i 16s')
Mdl7SkinBaseSize == 28

\* self.header of _load_mdl7
Mdl7Header(d) ==
    [ident |-> SubSeq(d, 1, 4), version |-> S32(d, 4),
     bones_num |-> S32(d, 8), groups_num |-> S32(d, 12),
     mdl7data_size |-> S32(d, 16), entlump_size |-> S32(d, 20),
     medlump_size |-> S32(d, 24),
     bone_stc_size |-> U16(d, 28), skin_stc_size |-> U16(d, 30),
     colorvalue_stc_size |-> U16(d, 32), material_stc_size |-> U16(d, 34),
     skinpoint_stc_size |-> U16(d, 36), triangle_stc_size |-> U16(d, 38),
     mainvertex_stc_size |-> U16(d, 40), framevertex_stc_size |-> U16(d, 42),
     bonetrans_stc_size |-> U16(d, 44), frame_stc_size |-> U16(d, 46),
     num_skins |-> 0, skinwidth |-> 0, skinheight |-> 0, num_verts |-> 0,
     num_tris |-> 0, num_frames |-> 0,
     scale |-> <<FxOne, FxOne, FxOne>>, translate |-> <<0, 0, 0>>]

\* _load_mdl7: the 48-byte header
MDL_load_mdl7_header ==
    /\ pc = "mdl7"
    /\ IF ~CanUnpack(data, 0, Mdl7HeaderSize)
       THEN Raise("struct.error") /\ UNCHANGED <<offset, mdl, log>>
       ELSE /\ mdl' = [mdl EXCEPT !.header = Mdl7Header(data)]
            /\ offset' = Mdl7HeaderSize
            /\ log' = log \cup {"Loaded MDL format: MDL7"}
            /\ pc' = "mdl7_bones"
            /\ UNCHANGED exc
    /\ UNCHANGED <<data, idx, loc, beyond>>

\* the loop over the groups: its next header, or the end of the decoding
Mdl7NextGroup(k, h) == IF k < h.groups_num THEN "mdl7_group" ELSE "mdl7_store"

\* _load_mdl7: the bones are skipped, not read
MDL_load_mdl7_bones ==
    /\ pc = "mdl7_bones"
    /\ offset' = offset + mdl.header.bones_num * mdl.header.bone_stc_size
    /\ loc' = NoLoc
    /\ pc' = Mdl7NextGroup(0, mdl.header)
    /\ UNCHANGED <<data, idx, exc, log, mdl, beyond>>

\* _load_mdl7: the header of a group
MDL_load_mdl7_group ==
    /\ pc = "mdl7_group"
    /\ IF ~CanUnpackAt(data, offset, Mdl7GroupSize)
       THEN Raise("struct.error") /\ UNCHANGED <<offset, idx, loc>>
       ELSE LET at == At(data, offset)
                num_skins == S32(data, at + 24)
            IN  /\ loc' = [loc EXCEPT !.num_skins = num_skins,
                                      !.num_stpts = S32(data, at + 28),
                                      !.num_tris = S32(data, at + 32),
                                      !.num_verts = S32(data, at + 36),
                                      !.num_frames = S32(data, at + 40),
                                      !.group_verts = <<>>]
                /\ offset' = offset + Mdl7GroupSize
                /\ idx' = 0
                /\ pc' = IF num_skins > 0 THEN "mdl7_skins" ELSE "mdl7_mesh"
                /\ UNCHANGED exc
    /\ UNCHANGED <<data, log, mdl, beyond>>

\* bytes per pixel by skin_typ & 7 of an MDL7 skin that holds pixels
Mdl7Bpp(base_type) ==
    CASE base_type = 0 -> 1
      [] base_type = 2 -> 2
      [] base_type = 3 -> 2
      [] base_type = 4 -> 3
      [] base_type = 5 -> 4
      [] OTHER -> 0

\* what the loop prints of a skin it passes over, "" for one it decodes
Mdl7Skipped(skin_typ) ==
    LET has_material == (skin_typ \div 16) % 2 = 1
        base_type == skin_typ % 8
    IN  IF has_material \/ base_type = 1 THEN "material reference"
        ELSE IF base_type = 6 THEN "DDS file (not supported)"
        ELSE IF base_type = 7 THEN "external file"
        ELSE ""

\* the skins loop of a group were every skin that holds pixels stored
MDL_load_mdl7_skin_every ==
    /\ pc = "mdl7_skins"
    /\ IF ~CanUnpackAt(data, offset, Mdl7SkinBaseSize)
       THEN Raise("struct.error") /\ UNCHANGED <<offset, idx, mdl, log>>
       ELSE LET at == At(data, offset)
                skin_typ == U8(data, at)
                skin_width == S32(data, at + 4)
                skin_height == S32(data, at + 8)
                has_mipmaps == (skin_typ \div 8) % 2 = 1
                base_type == skin_typ % 8
                bpp == Mdl7Bpp(base_type)
                off == offset + mdl.header.skin_stc_size
                pixel_size == skin_width * skin_height * bpp
                holds == Mdl7Skipped(skin_typ) = ""
                         /\ bpp > 0 /\ skin_width > 0 /\ skin_height > 0
            IN  /\ log' = IF Mdl7Skipped(skin_typ) # ""
                          THEN log \cup {Mdl7Skipped(skin_typ)}
                          ELSE log
                /\ offset' = IF ~holds THEN off
                             ELSE off + pixel_size
                                  + (IF has_mipmaps
                                     THEN MipmapBytes(skin_width, skin_height, bpp)
                                     ELSE 0)
                /\ mdl' = IF holds
                          THEN [mdl EXCEPT
                                  !.skins = Append(@,
                                      [type |-> GsSkinTypeStr(base_type),
                                       width |-> skin_width, height |-> skin_height,
                                       data |-> PySlice(data, off, off + pixel_size)]),
                                  !.header.skinwidth = skin_width,
                                  !.header.skinheight = skin_height]
                          ELSE mdl
                /\ IF idx + 1 < loc.num_skins
                   THEN pc' = "mdl7_skins" /\ idx' = idx + 1
                   ELSE pc' = "mdl7_mesh" /\ idx' = 0
                /\ UNCHANGED exc
    /\ UNCHANGED <<data, loc, beyond>>

\* _load_mdl7: one iteration of the skins loop of a group
MDL_load_mdl7_skin ==
    /\ pc = "mdl7_skins"
    /\ IF ~CanUnpackAt(data, offset, Mdl7SkinBaseSize)
       THEN Raise("struct.error") /\ UNCHANGED <<offset, idx, mdl, log>>
       ELSE LET at == At(data, offset)
                skin_typ == U8(data, at)
                skin_width == S32(data, at + 4)
                skin_height == S32(data, at + 8)
                has_mipmaps == (skin_typ \div 8) % 2 = 1
                base_type == skin_typ % 8
                bpp == Mdl7Bpp(base_type)
                off == offset + mdl.header.skin_stc_size
                pixel_size == skin_width * skin_height * bpp
                holds == Mdl7Skipped(skin_typ) = ""
                         /\ bpp > 0 /\ skin_width > 0 /\ skin_height > 0
            IN  /\ log' = IF Mdl7Skipped(skin_typ) # ""
                          THEN log \cup {Mdl7Skipped(skin_typ)}
                          ELSE log
                /\ offset' = IF ~holds THEN off
                             ELSE off + pixel_size
                                  + (IF has_mipmaps
                                     THEN MipmapBytes(skin_width, skin_height, bpp)
                                     ELSE 0)
                /\ mdl' = IF holds /\ Len(mdl.skins) = 0
                          THEN [mdl EXCEPT
                                  !.skins = Append(@,
                                      [type |-> GsSkinTypeStr(base_type),
                                       width |-> skin_width, height |-> skin_height,
                                       data |-> PySlice(data, off, off + pixel_size)]),
                                  !.header.skinwidth = skin_width,
                                  !.header.skinheight = skin_height]
                          ELSE mdl
                /\ IF idx + 1 < loc.num_skins
                   THEN pc' = "mdl7_skins" /\ idx' = idx + 1
                   ELSE pc' = "mdl7_mesh" /\ idx' = 0
                /\ UNCHANGED exc
    /\ UNCHANGED <<data, loc, beyond>>

\* the iterations of `for _ in range(n)` that run before an unpack raises,
\* when an iteration unpacks needs[k][2] bytes at off + needs[k][1]
RECURSIVE UnpackedAt(_, _, _, _, _)
UnpackedAt(d, off, stride, needs, n) ==
    IF n <= 0 \/ \E k \in 1..Len(needs) : ~CanUnpackAt(d, off + needs[k][1], needs[k][2])
    THEN 0
    ELSE 1 + UnpackedAt(d, off + stride, stride, needs, n - 1)

\* one triangle of a group stored with the indices it holds in the file
Mdl7TriangleAsRead(d, off, vertex_offset, skinvert_offset) ==
    <<U16(d, At(d, off)), U16(d, At(d, off) + 2), U16(d, At(d, off) + 4),
      U16(d, At(d, off + 6)), U16(d, At(d, off + 6) + 2), U16(d, At(d, off + 6) + 4)>>

\* one triangle of a group: vertex and UV indices, each moved by the totals
\* of the groups before it
Mdl7Triangle(d, off, vertex_offset, skinvert_offset) ==
    <<U16(d, At(d, off)) + vertex_offset,
      U16(d, At(d, off) + 2) + vertex_offset,
      U16(d, At(d, off) + 4) + vertex_offset,
      U16(d, At(d, off + 6)) + skinvert_offset,
      U16(d, At(d, off + 6) + 2) + skinvert_offset,
      U16(d, At(d, off + 6) + 4) + skinvert_offset>>

\* the end of a group: the totals move on by its counts
Mdl7GroupDone(l) ==
    [l EXCEPT !.vertex_offset = @ + l.num_verts,
              !.skinvert_offset = @ + l.num_stpts,
              !.group_idx = @ + 1]

\* _load_mdl7: the skin points, the triangles and the main vertices of a group
MDL_load_mdl7_mesh ==
    /\ pc = "mdl7_mesh"
    /\ LET h == mdl.header
           n_st == Max(loc.num_stpts, 0)
           n_tri == Max(loc.num_tris, 0)
           n_v == Max(loc.num_verts, 0)
           st_off == offset
           st_done == UnpackedAt(data, st_off, h.skinpoint_stc_size, <<<<0, 8>>>>, n_st)
           tri_off == st_off + n_st * h.skinpoint_stc_size
           tri_done == UnpackedAt(data, tri_off, h.triangle_stc_size,
                                  <<<<0, 6>>, <<6, 6>>>>, n_tri)
           v_off == tri_off + n_tri * h.triangle_stc_size
           v_done == UnpackedAt(data, v_off, h.mainvertex_stc_size, <<<<0, 12>>>>, n_v)
           end == v_off + n_v * h.mainvertex_stc_size
           skinverts == [i \in 1..n_st |->
                            LET a == At(data, st_off + (i - 1) * h.skinpoint_stc_size)
                            IN  <<F32(data, a), F32(data, a + 4)>>]
           triangles == [i \in 1..n_tri |->
                            Mdl7Triangle(data, tri_off + (i - 1) * h.triangle_stc_size,
                                         loc.vertex_offset, loc.skinvert_offset)]
           verts == [i \in 1..n_v |->
                        F32x3(data, At(data, v_off + (i - 1) * h.mainvertex_stc_size))]
           l == [loc EXCEPT !.all_skinverts = @ \o skinverts,
                            !.all_triangles = @ \o triangles,
                            !.group_verts = verts]
       IN  IF st_done < n_st
           THEN /\ Raise("struct.error")
                /\ offset' = st_off + st_done * h.skinpoint_stc_size
                /\ UNCHANGED <<idx, loc>>
           ELSE IF tri_done < n_tri
           THEN /\ Raise("struct.error")
                /\ offset' = tri_off + tri_done * h.triangle_stc_size
                /\ UNCHANGED <<idx, loc>>
           ELSE IF v_done < n_v
           THEN /\ Raise("struct.error")
                /\ offset' = v_off + v_done * h.mainvertex_stc_size
                /\ UNCHANGED <<idx, loc>>
           ELSE /\ offset' = end
                /\ idx' = 0
                /\ UNCHANGED exc
                /\ IF loc.num_frames > 0
                   THEN pc' = "mdl7_frames" /\ loc' = l
                   ELSE /\ loc' = Mdl7GroupDone(l)
                        /\ pc' = Mdl7NextGroup(loc.group_idx + 1, h)
    /\ UNCHANGED <<data, log, mdl, beyond>>

\* the frame vertices of a frame: each replaces the main vertex it names,
\* one that names no vertex of the group is read and dropped
RECURSIVE Mdl7FrameVerts(_, _, _, _, _)
Mdl7FrameVerts(d, off, stride, n, verts) ==
    IF n <= 0 THEN [ok |-> TRUE, off |-> off, verts |-> verts]
    ELSE IF ~CanUnpackAt(d, off, 12) \/ ~CanUnpackAt(d, off + 12, 2)
    THEN [ok |-> FALSE, off |-> off, verts |-> verts]
    ELSE LET vert_idx == U16(d, At(d, off + 12))
             placed == IF vert_idx < Len(verts)
                       THEN [verts EXCEPT ![vert_idx + 1] = F32x3(d, At(d, off))]
                       ELSE verts
         IN  Mdl7FrameVerts(d, off + stride, stride, n - 1, placed)

\* the frames after the frame of a group was decoded: the first group
\* appends it, a later group extends the frame of the same index if there
\* is one
Mdl7Frames(frames, group_idx, frame_idx, name, frame_verts) ==
    IF group_idx = 0
    THEN Append(frames, [type |-> "single", name |-> name, verts |-> frame_verts])
    ELSE IF frame_idx < Len(frames)
    THEN [frames EXCEPT ![frame_idx + 1].verts = @ \o frame_verts]
    ELSE frames

\* _load_mdl7: one iteration of the frames loop of a group
MDL_load_mdl7_frame ==
    /\ pc = "mdl7_frames"
    /\ LET h == mdl.header
       IN  IF ~CanUnpackAt(data, offset, 16) \/ ~CanUnpackAt(data, offset + 16, 8)
           THEN Raise("struct.error") /\ UNCHANGED <<offset, idx, mdl, loc>>
           ELSE LET frame_name == Str(data, At(data, offset), 16)
                    verts_count == S32(data, At(data, offset + 16))
                    trans_count == S32(data, At(data, offset + 16) + 4)
                    read == Mdl7FrameVerts(data, offset + h.frame_stc_size,
                                           h.framevertex_stc_size, verts_count,
                                           loc.group_verts)
                IN  IF ~read.ok
                    THEN Raise("struct.error") /\ offset' = read.off
                         /\ UNCHANGED <<idx, mdl, loc>>
                    ELSE /\ offset' = read.off + trans_count * h.bonetrans_stc_size
                         /\ mdl' = [mdl EXCEPT !.frames =
                                       Mdl7Frames(@, loc.group_idx, idx, frame_name,
                                                  read.verts)]
                         /\ UNCHANGED exc
                         /\ IF idx + 1 < loc.num_frames
                            THEN pc' = "mdl7_frames" /\ idx' = idx + 1 /\ UNCHANGED loc
                            ELSE /\ idx' = 0
                                 /\ loc' = Mdl7GroupDone(loc)
                                 /\ pc' = Mdl7NextGroup(loc.group_idx + 1, h)
    /\ UNCHANGED <<data, log, beyond>>

\* self.header once the combined data is stored
Mdl7Stored(h, m, l) ==
    [k \in DOMAIN h \cup {"num_skinverts"} |->
        CASE k = "num_verts" -> l.vertex_offset
          [] k = "num_tris" -> Len(l.all_triangles)
          [] k = "num_frames" -> Len(m.frames)
          [] k = "num_skinverts" -> l.skinvert_offset
          [] OTHER -> h[k]]

\* _load_mdl7: the combined lists and counts are stored and load returns
MDL_load_mdl7_store ==
    /\ pc = "mdl7_store"
    /\ mdl' = [mdl EXCEPT !.skinverts = loc.all_skinverts,
                          !.triangles = loc.all_triangles,
                          !.header = Mdl7Stored(mdl.header, mdl, loc)]
    /\ log' = log \cup {"Loaded MDL7"}
    /\ pc' = "returned"
    /\ UNCHANGED <<data, offset, idx, exc, loc, beyond>>

----------------------------------------------------------------------------
(* GameViewer.build_model_geometry, src/viewer/game_viewer.py: the consumer *)
(* of a decoded model.  A read is recorded with the index it was asked for *)
(* and the element it took: Zero when (0, 0) or (0, 0, 0) was substituted, *)
(* Fails when the list raised IndexError.                                  *)

Zero == -1
Fails == -2

NoGeom == [uv |-> <<>>, pos |-> <<>>]

\* `if x < len(lst): lst[x] else: zero` on a list of n elements: a negative
\* x passes the test and lst[x] counts from the end of the list
GuardedGet(n, x) ==
    IF x >= n THEN [index |-> x, elem |-> Zero]
    ELSE IF x >= 0 THEN [index |-> x, elem |-> x]
    ELSE IF x >= -n THEN [index |-> x, elem |-> n + x]
    ELSE [index |-> x, elem |-> Fails]

\* the reads up to and including the first that fails
Performed(reads) ==
    LET bad == {k \in 1..Len(reads) : reads[k].elem = Fails}
    IN  IF bad = {} THEN reads
        ELSE SubSeq(reads, 1, CHOOSE k \in bad : \A j \in bad : k <= j)

HasFailed(reads) == \E k \in 1..Len(reads) : reads[k].elem = Fails

\* the corners of the triangles in order: (vertex index, UV index)
Corners(m) ==
    LET is_idpo == m.header.ident = TagIDPO
    IN  Flatten([t \in 1..Len(m.triangles) |->
            [c \in 1..3 |->
                IF is_idpo
                THEN [v |-> m.triangles[t][c + 1], uv |-> m.triangles[t][c + 1]]
                ELSE [v |-> m.triangles[t][c], uv |-> m.triangles[t][c + 3]]]])

\* skin_width, skin_height of the model
SkinDims(m) ==
    IF m.skins # <<>> /\ "width" \in DOMAIN m.skins[1]
    THEN <<m.skins[1].width, m.skins[1].height>>
    ELSE <<m.header.skinwidth, m.header.skinheight>>

\* build_model_geometry(model) after a load that returned; the upload of
\* the skin to the GPU between the two is not modelled
GameViewer_build_model_geometry ==
    /\ pc = "returned"
    /\ IF mdl.triangles = <<>> \/ mdl.frames = <<>>
       THEN pc' = "built" /\ geom' = NoGeom /\ UNCHANGED exc
       ELSE LET corners == Corners(mdl)
                is_idpo == mdl.header.ident = TagIDPO
                is_mdl7 == mdl.header.ident = TagMDL7
                nuv == IF is_idpo THEN Len(mdl.texcoords) ELSE Len(mdl.skinverts)
                uv == [k \in 1..Len(corners) |-> GuardedGet(nuv, corners[k].uv)]
                \* s / skin_width, t / skin_height of a UV that was read
                divides == ~is_mdl7 /\ \E k \in 1..Len(uv) : uv[k].elem >= 0
                zerodiv == divides /\ (SkinDims(mdl)[1] = 0 \/ SkinDims(mdl)[2] = 0)
                pos == [f \in 1..Len(mdl.frames) |->
                           [k \in 1..Len(corners) |->
                               GuardedGet(Len(mdl.frames[f].verts), corners[k].v)]]
                posdone == Performed(Flatten(pos))
            IN  IF HasFailed(uv)
                THEN /\ pc' = "build_raised" /\ exc' = "IndexError"
                     /\ geom' = [uv |-> Performed(uv), pos |-> <<>>]
                ELSE IF zerodiv
                THEN /\ pc' = "build_raised" /\ exc' = "ZeroDivisionError"
                     /\ geom' = [uv |-> uv, pos |-> <<>>]
                ELSE IF HasFailed(Flatten(pos))
                THEN /\ pc' = "build_raised" /\ exc' = "IndexError"
                     /\ geom' = [uv |-> uv, pos |-> posdone]
                ELSE /\ pc' = "built" /\ UNCHANGED exc
                     /\ geom' = [uv |-> uv, pos |-> Flatten(pos)]
    /\ UNCHANGED <<data, offset, idx, log, mdl, prev, wmb, tris, face, loc, view>>

----------------------------------------------------------------------------
(* The WMB instance and WMB.load, src/viewer/wmb_loader.py.  Each loader   *)
(* of a list is one step: it appends what it decodes until it returns or   *)
(* an unpack raises, and the instance keeps what was appended.             *)

\* Python's None
None == "None"

Abs(x) == IF x < 0 THEN -x ELSE x

\* WMB.__init__
WMB_new ==
    [version |-> None,
     header |-> [version |-> None, lists |-> <<>>],
     textures |-> <<>>, materials |-> <<>>, blocks |-> <<>>, objects |-> <<>>,
     lightmaps |-> <<>>, info |-> None,
     vertices |-> <<>>, edges |-> <<>>, surfedges |-> <<>>, faces |-> <<>>,
     texinfo |-> <<>>]

WMB_init ==
    /\ CallOver
    /\ wmb' = WMB_new
    /\ pc' = "wmb_constructed"
    /\ exc' = "none"
    /\ log' = {}
    /\ offset' = 0
    /\ idx' = 0
    /\ data' = <<>>
    /\ loc' = NoLoc

TagWMB4 == <<87, 77, 66, 52>>
TagWMB6 == <<87, 77, 66, 54>>
TagWMB7 == <<87, 77, 66, 55>>

\* WMB.load: read the file, unpack the version, dispatch
WMB_load(Inputs) ==
    /\ pc = "wmb_constructed"
    /\ \E d \in Inputs :
        /\ data' = d
        /\ IF ~CanUnpack(d, 0, 4)
           THEN Raise("struct.error") /\ UNCHANGED <<log, wmb>>
           ELSE LET version == SubSeq(d, 1, 4)
                IN  /\ wmb' = [wmb EXCEPT !.version = version]
                    /\ exc' = "none"
                    /\ IF version = TagWMB7 THEN pc' = "wmb7" /\ UNCHANGED log
                       ELSE IF version = TagWMB6 THEN pc' = "wmb6" /\ UNCHANGED log
                       ELSE IF version = TagWMB4 THEN pc' = "wmb4" /\ UNCHANGED log
                       ELSE /\ pc' = "returned"
                            /\ log' = log \cup {"Unknown WMB version"}
    /\ UNCHANGED <<offset, idx, outsideWmb>>

\* WMB.load on an instance that has loaded a file before: the version is
\* set anew, nothing else of the instance is reset
WMB_load_again(Inputs) ==
    /\ pc \in {"returned", "raised"}
    /\ \E d \in Inputs :
        /\ data' = d
        /\ IF ~CanUnpack(d, 0, 4)
           THEN Raise("struct.error") /\ UNCHANGED <<log, wmb>>
           ELSE LET version == SubSeq(d, 1, 4)
                IN  /\ wmb' = [wmb EXCEPT !.version = version]
                    /\ exc' = "none"
                    /\ IF version = TagWMB7 THEN pc' = "wmb7" /\ UNCHANGED log
                       ELSE IF version = TagWMB6 THEN pc' = "wmb6" /\ UNCHANGED log
                       ELSE IF version = TagWMB4 THEN pc' = "wmb4" /\ UNCHANGED log
                       ELSE /\ pc' = "returned"
                            /\ log' = log \cup {"Unknown WMB version"}
    /\ offset' = 0
    /\ idx' = 0
    /\ loc' = NoLoc

\* list_names of _load_wmb4 and of _load_wmb6
Wmb4Lists ==
    <<"list0", "palettes", "textures", "vertices", "pvs",
      "bsp_nodes", "materials", "faces", "list8", "aabb_hulls",
      "bsp_leafs", "bsp_blocks", "edges", "skins", "info",
      "objects">>
Wmb6Lists ==
    <<"list0", "palettes", "textures", "vertices", "pvs",
      "bsp_nodes", "materials", "faces", "legacy4", "aabb_hulls",
      "bsp_leafs", "bsp_blocks", "edges", "skins", "legacy7",
      "objects", "lightmaps">>

\* list_names of _load_wmb7
Wmb7Lists ==
    <<"palettes", "legacy1", "textures", "legacy2", "pvs",
      "bsp_nodes", "materials", "legacy3", "legacy4", "aabb_hulls",
      "bsp_leafs", "bsp_blocks", "legacy5", "legacy6", "legacy7",
      "objects", "lightmaps", "blocks", "legacy8", "lightmaps_terrain">>

\* the entries of the directory that unpack: entry k is at 4 + 8 * (k - 1)
RECURSIVE ListsRead(_, _, _)
ListsRead(d, names, k) ==
    IF k > Len(names) \/ ~CanUnpack(d, 4 + 8 * (k - 1), 8) THEN k - 1
    ELSE ListsRead(d, names, k + 1)

\* self.header['lists'] after the first n names; a name that comes twice
\* keeps its last entry
ListsOf(d, names, n) ==
    [name \in {names[k] : k \in 1..n} |->
        LET k == CHOOSE j \in 1..n :
                    names[j] = name /\ \A i \in 1..n : names[i] = name => i <= j
        IN  [offset |-> U32(d, 4 + 8 * (k - 1)), length |-> U32(d, 8 + 8 * (k - 1))]]

\* _load_wmb4 / _load_wmb6 / _load_wmb7: the directory of lists
WMB_load_lists ==
    /\ pc \in {"wmb4", "wmb6", "wmb7"}
    /\ LET names == IF pc = "wmb4" THEN Wmb4Lists
                    ELSE IF pc = "wmb6" THEN Wmb6Lists ELSE Wmb7Lists
           n == ListsRead(data, names, 1)
       IN  /\ wmb' = [wmb EXCEPT !.header =
                        [version |-> wmb.version, lists |-> ListsOf(data, names, n)]]
           /\ IF n < Len(names)
              THEN Raise("struct.error")
              ELSE pc' = "wmb_textures" /\ UNCHANGED exc
    /\ UNCHANGED <<data, offset, idx, log, outsideWmb>>

\* self.header['lists'][name]
List(name) == wmb.header.lists[name]

\* base, the per-unit size in bytes and the format of a WMB4/WMB6 texture
\* type; a type that is not listed is told by the legacy field
Wmb6TexBpp(tex_type) ==
    IF tex_type \in {40, 8, 2} THEN 2
    ELSE IF tex_type \in {48, 16, 4} THEN 3
    ELSE IF tex_type \in {56, 24, 5} THEN 4
    ELSE 0

TexFormat(bpp) ==
    CASE bpp = 1 -> "palette8" [] bpp = 2 -> "rgb565" [] bpp = 3 -> "rgb888"
      [] bpp = 4 -> "rgba8888"

\* one texture of _load_textures, its 32-byte header at abs_offset
Texture(d, abs_offset, version) ==
    LET name == StripNul(SubSeq(d, abs_offset + 1, abs_offset + 16))
        width == U32(d, abs_offset + 16)
        height == U32(d, abs_offset + 20)
        tex_type == U32(d, abs_offset + 24)
        body == abs_offset + 32
        t == [name |-> name, width |-> width, height |-> height, type |-> tex_type]
        Sized(fmt, size) ==
            t @@ [format |-> fmt, data |-> Slice(d, body, body + size)]
        Unknown == t @@ [format |-> "unknown", data |-> None]
    IN  IF version \in {TagWMB4, TagWMB6}
        THEN IF Wmb6TexBpp(tex_type) # 0
             THEN Sized(TexFormat(Wmb6TexBpp(tex_type)),
                        width * height * Wmb6TexBpp(tex_type))
             ELSE LET legacy == U32(d, body - 12)
                      expected_16bit == width * height * 2 + 40
                  IN  IF legacy = expected_16bit \/ Abs(legacy - expected_16bit) < 100
                      THEN Sized("rgb565", width * height * 2)
                      ELSE Unknown
        ELSE LET base_type == tex_type % 8
             IN  CASE base_type = 6 -> Sized("dds", width)
                   [] base_type = 5 -> Sized("rgba8888", width * height * 4)
                   [] base_type = 4 -> Sized("rgb888", width * height * 3)
                   [] base_type = 2 -> Sized("rgb565", width * height * 2)
                   [] base_type = 0 -> Sized("palette8", width * height)
                   [] OTHER -> Unknown

\* the textures appended by the second loop of _load_textures from entry i
\* on, up to the first whose header does not unpack
RECURSIVE TexturesFrom(_, _, _, _, _)
TexturesFrom(d, base, tex_offsets, i, version) ==
    IF i > Len(tex_offsets) \/ ~CanUnpack(d, base + tex_offsets[i], 28) THEN <<>>
    ELSE <<Texture(d, base + tex_offsets[i], version)>>
         \o TexturesFrom(d, base, tex_offsets, i + 1, version)

\* a table of n '<I' entries from off on fits the buffer
TableFits(d, off, n) == off <= Len(d) /\ n <= (Len(d) - off) \div 4

\* the reader that _load_wmb7, or _load_wmb4 and _load_wmb6, call after
\* _load_textures
AfterTextures == IF wmb.version = TagWMB7 THEN "wmb_materials" ELSE "wmb_texinfo"

\* _load_textures
WMB_load_textures ==
    /\ pc = "wmb_textures"
    /\ LET tex_list == List("textures")
           base == tex_list.offset
       IN  IF tex_list.length = 0
           THEN pc' = AfterTextures /\ UNCHANGED <<wmb, exc>>
           ELSE IF ~CanUnpack(data, base, 4) \/ ~TableFits(data, base + 4, U32(data, base))
           THEN Raise("struct.error") /\ UNCHANGED wmb
           ELSE LET num_textures == U32(data, base)
                    tex_offsets == [i \in 1..num_textures |-> U32(data, base + 4 * i)]
                    textures == TexturesFrom(data, base, tex_offsets, 1, wmb.version)
                IN  /\ wmb' = [wmb EXCEPT !.textures = wmb.textures \o textures]
                    /\ IF Len(textures) < num_textures
                       THEN Raise("struct.error")
                       ELSE pc' = AfterTextures /\ UNCHANGED exc
    /\ UNCHANGED <<data, offset, idx, log, outsideWmb>>

\* the iterations of `for i in range(n)` that run before an unpack raises,
\* when iteration i needs the bytes off + i * stride .. + need
RECURSIVE Unpacked(_, _, _, _, _)
Unpacked(d, off, stride, need, n) ==
    IF n <= 0 \/ ~CanUnpack(d, off, need) THEN 0
    ELSE 1 + Unpacked(d, off + stride, stride, need, n - 1)

\* one texinfo struct of 64 bytes, of which 40 are read
TexInfo(d, off) ==
    [s_vec |-> F32x3(d, off), s_off |-> F32(d, off + 12),
     t_vec |-> F32x3(d, off + 16), t_off |-> F32(d, off + 28),
     texture |-> U32(d, off + 32), flags |-> U32(d, off + 36)]

\* _load_wmb6_texinfo
WMB_load_wmb6_texinfo ==
    /\ pc = "wmb_texinfo"
    /\ LET mat_list == List("materials")
           num_texinfo == mat_list.length \div 64
           n == Unpacked(data, mat_list.offset, 64, 40, num_texinfo)
       IN  IF mat_list.length = 0
           THEN pc' = "wmb_vertices" /\ UNCHANGED <<wmb, exc>>
           ELSE /\ wmb' = [wmb EXCEPT !.texinfo = wmb.texinfo \o
                            [i \in 1..n |-> TexInfo(data, mat_list.offset + 64 * (i - 1))]]
                /\ IF n < num_texinfo
                   THEN Raise("struct.error")
                   ELSE pc' = "wmb_vertices" /\ UNCHANGED exc
    /\ UNCHANGED <<data, offset, idx, log, outsideWmb>>

\* _load_wmb6_vertices
WMB_load_wmb6_vertices ==
    /\ pc = "wmb_vertices"
    /\ LET vert_list == List("vertices")
           num_verts == vert_list.length \div 12
           n == Unpacked(data, vert_list.offset, 12, 12, num_verts)
       IN  IF vert_list.length = 0
           THEN pc' = "wmb_edges" /\ UNCHANGED <<wmb, exc>>
           ELSE /\ wmb' = [wmb EXCEPT !.vertices = wmb.vertices \o
                            [i \in 1..n |-> F32x3(data, vert_list.offset + 12 * (i - 1))]]
                /\ IF n < num_verts
                   THEN Raise("struct.error")
                   ELSE pc' = "wmb_edges" /\ UNCHANGED exc
    /\ UNCHANGED <<data, offset, idx, log, outsideWmb>>

\* _load_wmb6_edges: the list starts with 8 bytes that are skipped
WMB_load_wmb6_edges ==
    /\ pc = "wmb_edges"
    /\ LET edge_list == List("edges")
           first == edge_list.offset + 8
           num_edges == (edge_list.length - 8) \div 8
           n == Unpacked(data, first, 8, 8, num_edges)
       IN  IF edge_list.length = 0
           THEN pc' = "wmb_faces" /\ UNCHANGED <<wmb, exc>>
           ELSE /\ wmb' = [wmb EXCEPT !.edges = wmb.edges \o
                            [i \in 1..n |-> <<U32(data, first + 8 * (i - 1)),
                                              U32(data, first + 8 * (i - 1) + 4)>>]]
                /\ IF n < num_edges
                   THEN Raise("struct.error")
                   ELSE pc' = "wmb_faces" /\ UNCHANGED exc
    /\ UNCHANGED <<data, offset, idx, log, outsideWmb>>

\* _load_wmb6_surfedges: the surfedges decoded, and whether the loop ended
Surfedges(d, surfedge_list) ==
    LET num_surfedges == surfedge_list.length \div 4
        n == Unpacked(d, surfedge_list.offset, 4, 4, num_surfedges)
    IN  [vals |-> [i \in 1..n |-> S32(d, surfedge_list.offset + 4 * (i - 1))],
         ended |-> n = num_surfedges]

\* edge_idx = abs(surfedge) - 1 names an edge of the list
EdgeKnown(surfedge, edges) ==
    ~(Abs(surfedge) - 1 < 0 \/ Abs(surfedge) - 1 >= Len(edges))

\* EdgeOf with the sign of the surfedge read the other way round
EdgeOfSwapped(surfedge, edges) ==
    LET e == edges[Abs(surfedge)]
    IN  IF surfedge < 0 THEN <<e[1], e[2]>> ELSE <<e[2], e[1]>>

\* (v1, v2) of a surfedge: self.edges[abs(surfedge) - 1], the two ends
\* swapped when the surfedge is negative
EdgeOf(surfedge, edges) ==
    LET e == edges[Abs(surfedge)]
    IN  IF surfedge < 0 THEN <<e[2], e[1]>> ELSE <<e[1], e[2]>>

\* face_verts were both ends of every edge appended
RECURSIVE FaceVertsFromBothEnds(_, _, _, _, _, _)
FaceVertsFromBothEnds(surfedges, edges, first_surfedge, e, num_verts, face_verts) ==
    IF e >= num_verts \/ first_surfedge + e >= Len(surfedges) THEN face_verts
    ELSE LET surfedge == surfedges[first_surfedge + e + 1]
         IN  IF ~EdgeKnown(surfedge, edges)
             THEN FaceVertsFromBothEnds(surfedges, edges, first_surfedge, e + 1,
                                        num_verts, face_verts)
             ELSE LET v == EdgeOf(surfedge, edges)
                  IN  FaceVertsFromBothEnds(surfedges, edges, first_surfedge, e + 1,
                                            num_verts, face_verts \o <<v[1], v[2]>>)

\* face_verts after iterations e.. of `for e in range(num_verts)`.  From the
\* first surfedge_idx >= len(self.surfedges) on every iteration continues.
RECURSIVE FaceVertsFrom(_, _, _, _, _, _)
FaceVertsFrom(surfedges, edges, first_surfedge, e, num_verts, face_verts) ==
    IF e >= num_verts \/ first_surfedge + e >= Len(surfedges) THEN face_verts
    ELSE LET surfedge == surfedges[first_surfedge + e + 1]
         IN  IF ~EdgeKnown(surfedge, edges)
             THEN FaceVertsFrom(surfedges, edges, first_surfedge, e + 1, num_verts,
                                face_verts)
             ELSE LET v == EdgeOf(surfedge, edges)
                  IN  FaceVertsFrom(surfedges, edges, first_surfedge, e + 1, num_verts,
                        IF Len(face_verts) = 0 THEN <<v[1], v[2]>>
                        ELSE Append(face_verts, v[2]))

\* (v1, v2) of the iterations e.. that reach line 240, in order
RECURSIVE ContributionsFrom(_, _, _, _, _)
ContributionsFrom(surfedges, edges, first_surfedge, e, num_verts) ==
    IF e >= num_verts \/ first_surfedge + e >= Len(surfedges) THEN <<>>
    ELSE LET surfedge == surfedges[first_surfedge + e + 1]
             rest == ContributionsFrom(surfedges, edges, first_surfedge, e + 1, num_verts)
         IN  IF ~EdgeKnown(surfedge, edges) THEN rest
             ELSE <<EdgeOf(surfedge, edges)>> \o rest

Contributions(surfedges, edges, first_surfedge, num_verts) ==
    ContributionsFrom(surfedges, edges, first_surfedge, 0, num_verts)

FaceVerts(surfedges, edges, first_surfedge, num_verts) ==
    FaceVertsFrom(surfedges, edges, first_surfedge, 0, num_verts, <<>>)

\* one face record of 24 bytes
Face(d, off, surfedges, edges) ==
    LET flags == U32(d, off)
        first_surfedge == U32(d, off + 4)
        tex_info == U32(d, off + 8)
        skin == U32(d, off + 20)
        num_verts == tex_info % 65536
        tex_idx == (tex_info \div 65536) % 65536
    IN  [flags |-> flags, first_edge |-> first_surfedge, num_verts |-> num_verts,
         tex_idx |-> tex_idx, skin |-> skin,
         vertices |-> FaceVerts(surfedges, edges, first_surfedge, num_verts)]

\* _load_wmb6_faces, _load_wmb6_surfedges included
WMB_load_wmb6_faces ==
    /\ pc = "wmb_faces"
    /\ LET face_list == List("faces")
           surfedge_list == List("skins")
           sf == Surfedges(data, surfedge_list)
           surfedges == IF surfedge_list.length = 0 THEN wmb.surfedges ELSE sf.vals
           num_faces == face_list.length \div 24
           n == Unpacked(data, face_list.offset, 24, 24, num_faces)
       IN  IF face_list.length = 0
           THEN pc' = "wmb_objects" /\ UNCHANGED <<wmb, exc>>
           ELSE IF surfedge_list.length # 0 /\ ~sf.ended
           THEN /\ wmb' = [wmb EXCEPT !.surfedges = surfedges]
                /\ Raise("struct.error")
           ELSE /\ wmb' = [wmb EXCEPT
                        !.surfedges = surfedges,
                        !.faces = wmb.faces \o
                            [i \in 1..n |-> Face(data, face_list.offset + 24 * (i - 1),
                                                 surfedges, wmb.edges)]]
                /\ IF n < num_faces
                   THEN Raise("struct.error")
                   ELSE pc' = "wmb_objects" /\ UNCHANGED exc
    /\ UNCHANGED <<data, offset, idx, log, outsideWmb>>


\* _load_materials: the name of each 64-byte material
WMB_load_materials ==
    /\ pc = "wmb_materials"
    /\ LET mat_list == List("materials")
           num_materials == mat_list.length \div 64
           n == Unpacked(data, mat_list.offset + 44, 64, 20, num_materials)
       IN  IF mat_list.length = 0
           THEN pc' = "wmb_lightmaps" /\ UNCHANGED <<wmb, exc>>
           ELSE /\ wmb' = [wmb EXCEPT !.materials = wmb.materials \o
                            [i \in 1..n |-> Str(data, mat_list.offset + 44 + 64 * (i - 1), 20)]]
                /\ IF n < num_materials
                   THEN Raise("struct.error")
                   ELSE pc' = "wmb_lightmaps" /\ UNCHANGED exc
    /\ UNCHANGED <<data, offset, idx, log, outsideWmb>>

\* lm_size: a lightmap is 1024 x 1024 pixels of 3 bytes
LmSize == 1024 * 1024 * 3

\* _load_lightmaps: slices, cut at the end of the buffer
WMB_load_lightmaps ==
    /\ pc = "wmb_lightmaps"
    /\ LET lm_list == List("lightmaps")
           num_lightmaps == lm_list.length \div LmSize
       IN  IF lm_list.length = 0
           THEN UNCHANGED wmb
           ELSE wmb' = [wmb EXCEPT !.lightmaps = wmb.lightmaps \o
                          [i \in 1..num_lightmaps |->
                              [width |-> 1024, height |-> 1024,
                               data |-> Slice(data, lm_list.offset + LmSize * (i - 1),
                                              lm_list.offset + LmSize * i)]]]
    /\ pc' = "wmb_blocks"
    /\ UNCHANGED <<data, offset, idx, exc, log, outsideWmb>>

\* struct.calcsize('<6f4I')
BlockSize == 40

\* one block of _load_blocks at off and where it ends; not ok when an
\* unpack of it raises
Block(d, off) ==
    IF ~CanUnpack(d, off, BlockSize) THEN [ok |-> FALSE]
    ELSE LET num_verts == U32(d, off + 28)
             num_tris == U32(d, off + 32)
             num_skins == U32(d, off + 36)
             voff == off + BlockSize
             toff == voff + 28 * num_verts
             soff == toff + 12 * num_tris
         IN  IF Unpacked(d, voff, 28, 28, num_verts) < num_verts
                \/ Unpacked(d, toff, 12, 12, num_tris) < num_tris
                \/ Unpacked(d, soff, 20, 20, num_skins) < num_skins
             THEN [ok |-> FALSE]
             ELSE [ok |-> TRUE,
                   mins |-> F32x3(d, off), maxs |-> F32x3(d, off + 12),
                   content |-> U32(d, off + 24),
                   num_verts |-> num_verts, num_tris |-> num_tris,
                   num_skins |-> num_skins,
                   vertices |-> [i \in 1..num_verts |->
                       LET a == voff + 28 * (i - 1)
                       IN  [pos |-> F32x3(d, a),
                            uv |-> <<F32(d, a + 12), F32(d, a + 16)>>,
                            lm_uv |-> <<F32(d, a + 20), F32(d, a + 24)>>]],
                   triangles |-> [i \in 1..num_tris |->
                       LET a == toff + 12 * (i - 1)
                       IN  [indices |-> <<S16(d, a), S16(d, a + 2), S16(d, a + 4)>>,
                            skin |-> S16(d, a + 6)]],
                   skins |-> [i \in 1..num_skins |->
                       LET a == soff + 20 * (i - 1)
                       IN  [texture |-> S16(d, a), lightmap |-> S16(d, a + 2),
                            material |-> U32(d, a + 4),
                            ambient |-> F32(d, a + 8), albedo |-> F32(d, a + 12),
                            flags |-> U32(d, a + 16)]],
                   end |-> soff + 20 * num_skins]

\* every block decoded where the first one starts
RECURSIVE BlocksFromSameOffset(_, _, _)
BlocksFromSameOffset(d, off, n) ==
    IF n <= 0 \/ ~Block(d, off).ok THEN <<>>
    ELSE <<Block(d, off)>> \o BlocksFromSameOffset(d, off, n - 1)

\* the blocks appended by _load_blocks from off on, up to the first that
\* does not unpack
RECURSIVE BlocksFrom(_, _, _)
BlocksFrom(d, off, n) ==
    IF n <= 0 \/ ~Block(d, off).ok THEN <<>>
    ELSE <<Block(d, off)>> \o BlocksFrom(d, Block(d, off).end, n - 1)

\* a block as it is stored
Stored(b) == [k \in DOMAIN b \ {"ok", "end"} |-> b[k]]

\* _load_blocks
WMB_load_blocks ==
    /\ pc = "wmb_blocks"
    /\ LET blk_list == List("blocks")
           base == blk_list.offset
       IN  IF blk_list.length = 0 \/ base >= Len(data)
           THEN pc' = "wmb_objects" /\ UNCHANGED <<wmb, exc>>
           ELSE IF ~CanUnpack(data, base, 4)
           THEN Raise("struct.error") /\ UNCHANGED wmb
           ELSE LET num_blocks == U32(data, base)
                    blocks == BlocksFrom(data, base + 4, num_blocks)
                IN  /\ wmb' = [wmb EXCEPT !.blocks = wmb.blocks \o
                                 [i \in 1..Len(blocks) |-> Stored(blocks[i])]]
                    /\ IF Len(blocks) < num_blocks
                       THEN Raise("struct.error")
                       ELSE pc' = "wmb_objects" /\ UNCHANGED exc
    /\ UNCHANGED <<data, offset, idx, log, outsideWmb>>

\* the bytes one object needs from abs_offset on, its type included
ObjectSize(obj_type) ==
    CASE obj_type = 5 -> 24
      [] obj_type = 1 -> 56
      [] obj_type = 2 -> 32
      [] obj_type = 3 -> 73
      [] obj_type = 7 -> 106
      [] OTHER -> 4

\* one object of _load_objects
Object(d, abs_offset, i) ==
    LET obj_type == U32(d, abs_offset)
        obj == [type |-> obj_type, index |-> i]
        origin == F32x3(d, abs_offset + 4)
        second == F32x3(d, abs_offset + 16)
        third == F32x3(d, abs_offset + 28)
    IN  CASE obj_type = 5 ->
                obj @@ [name |-> "INFO", origin |-> origin,
                        azimuth |-> F32(d, abs_offset + 16),
                        elevation |-> F32(d, abs_offset + 20)]
          [] obj_type = 1 ->
                obj @@ [name |-> "POSITION", origin |-> origin, angle |-> second,
                        pos_name |-> Str(d, abs_offset + 36, 20)]
          [] obj_type = 2 ->
                obj @@ [name |-> "LIGHT", origin |-> origin, color |-> second,
                        range |-> F32(d, abs_offset + 28)]
          [] obj_type = 3 ->
                obj @@ [name |-> "OLD_ENTITY", origin |-> origin, angle |-> second,
                        scale |-> third, ent_name |-> Str(d, abs_offset + 40, 20),
                        filename |-> Str(d, abs_offset + 60, 13)]
          [] obj_type = 7 ->
                obj @@ [name |-> "ENTITY", origin |-> origin, angle |-> second,
                        scale |-> third, ent_name |-> Str(d, abs_offset + 40, 33),
                        filename |-> Str(d, abs_offset + 73, 33)]
          [] OTHER -> obj @@ [name |-> <<"TYPE", obj_type>>]

\* an object unpacks: its type, then the fields of that type
ObjectFits(d, abs_offset) ==
    /\ CanUnpack(d, abs_offset, 4)
    /\ CanUnpack(d, abs_offset, ObjectSize(U32(d, abs_offset)))

\* the objects of the types the loop names, one of another type dropped
RECURSIVE ObjectsFromKnown(_, _, _, _)
ObjectsFromKnown(d, base, obj_offsets, i) ==
    IF i > Len(obj_offsets) \/ ~ObjectFits(d, base + obj_offsets[i]) THEN <<>>
    ELSE (IF U32(d, base + obj_offsets[i]) \in {5, 1, 2, 3, 7}
          THEN <<Object(d, base + obj_offsets[i], i - 1)>> ELSE <<>>)
         \o ObjectsFromKnown(d, base, obj_offsets, i + 1)

\* the objects appended by the second loop of _load_objects from entry i on,
\* up to the first that does not unpack
RECURSIVE ObjectsFrom(_, _, _, _)
ObjectsFrom(d, base, obj_offsets, i) ==
    IF i > Len(obj_offsets) \/ ~ObjectFits(d, base + obj_offsets[i]) THEN <<>>
    ELSE <<Object(d, base + obj_offsets[i], i - 1)>>
         \o ObjectsFrom(d, base, obj_offsets, i + 1)

\* self.info: the last WMB_INFO object appended
InfoOf(info, objects) ==
    LET infos == {k \in 1..Len(objects) : objects[k].type = 5}
    IN  IF infos = {} THEN info
        ELSE objects[CHOOSE k \in infos : \A j \in infos : j <= k]

\* _load_objects without the return of an empty list
WMB_load_objects_always ==
    /\ pc = "wmb_objects"
    /\ LET obj_list == List("objects")
           base == obj_list.offset
       IN  IF ~CanUnpack(data, base, 4) \/ ~TableFits(data, base + 4, U32(data, base))
           THEN Raise("struct.error") /\ UNCHANGED wmb
           ELSE LET num_objects == U32(data, base)
                    obj_offsets == [i \in 1..num_objects |-> U32(data, base + 4 * i)]
                    objects == ObjectsFrom(data, base, obj_offsets, 1)
                IN  /\ wmb' = [wmb EXCEPT !.objects = wmb.objects \o objects,
                                          !.info = InfoOf(wmb.info, objects)]
                    /\ IF Len(objects) < num_objects
                       THEN Raise("struct.error")
                       ELSE pc' = "returned" /\ UNCHANGED exc
    /\ UNCHANGED <<data, offset, idx, log, outsideWmb>>

\* _load_objects
WMB_load_objects ==
    /\ pc = "wmb_objects"
    /\ LET obj_list == List("objects")
           base == obj_list.offset
       IN  IF obj_list.length = 0
           THEN pc' = "returned" /\ UNCHANGED <<wmb, exc>>
           ELSE IF ~CanUnpack(data, base, 4) \/ ~TableFits(data, base + 4, U32(data, base))
           THEN Raise("struct.error") /\ UNCHANGED wmb
           ELSE LET num_objects == U32(data, base)
                    obj_offsets == [i \in 1..num_objects |-> U32(data, base + 4 * i)]
                    objects == ObjectsFrom(data, base, obj_offsets, 1)
                IN  /\ wmb' = [wmb EXCEPT !.objects = wmb.objects \o objects,
                                          !.info = InfoOf(wmb.info, objects)]
                    /\ IF Len(objects) < num_objects
                       THEN Raise("struct.error")
                       ELSE pc' = "returned" /\ UNCHANGED exc
    /\ UNCHANGED <<data, offset, idx, log, outsideWmb>>

----------------------------------------------------------------------------
(* GameViewer.triangulate_faces, src/viewer/game_viewer.py: the consumer   *)
(* of the faces of a decoded WMB4/WMB6 world.                              *)

\* positions of one face: a vertex index past the list gives (0, 0, 0)
Positions(verts, vertices) ==
    [k \in 1..Len(verts) |->
        IF verts[k] < Len(vertices) THEN vertices[verts[k] + 1] ELSE <<0, 0, 0>>]

\* the triangle fan of one face, none when the face has fewer than 3 vertices
FaceTriangles(f, w) ==
    IF Len(f.vertices) < 3 THEN <<>>
    ELSE LET positions == Positions(f.vertices, w.vertices)
             actual_tex == IF f.tex_idx < Len(w.texinfo)
                           THEN w.texinfo[f.tex_idx + 1].texture ELSE 0
         IN  [i \in 1..(Len(positions) - 2) |->
                [vertices |-> <<positions[1], positions[i + 1], positions[i + 2]>>,
                 texture |-> actual_tex, flags |-> f.flags]]

\* the bytes a decoded texture is uploaded with are all there; only a
\* texture of unknown format has no data
Complete(t) ==
    IF t.format \in {"unknown", "dds"} THEN TRUE
    ELSE Len(t.data) = t.width * t.height * (CASE t.format = "palette8" -> 1
                                               [] t.format = "rgb565" -> 2
                                               [] t.format = "rgb888" -> 3
                                               [] t.format = "rgba8888" -> 4)

\* load_current_file after a load that returned: triangulate_faces for a
\* WMB4/WMB6 world.  The uvs of a triangle, float arithmetic on its
\* positions, are left out; so is the upload of textures cut short.
GameViewer_triangulate_faces ==
    /\ pc = "returned"
    /\ wmb.version \in {TagWMB4, TagWMB6}
    /\ \A k \in 1..Len(wmb.textures) : Complete(wmb.textures[k])
    /\ tris' = Flatten([k \in 1..Len(wmb.faces) |-> FaceTriangles(wmb.faces[k], wmb)])
    /\ pc' = "triangulated"
    /\ UNCHANGED <<data, offset, idx, exc, log, wmb, mdl, prev, geom, face, loc, view>>

----------------------------------------------------------------------------
(* Input files.  The writers below lay a file out the way the format       *)
(* stores it; the loaders never see anything but the bytes.                *)

LE16(n) == <<n % 256, (n \div 256) % 256>>
LE32(n) == <<n % 256, (n \div 256) % 256, (n \div 65536) % 256, (n \div 16777216) % 256>>
\* '<i' of n, two's complement for a negative n
LES32(n) ==
    IF n >= 0 THEN LE32(n)
    ELSE [j \in 1..4 |-> 255 - LE32(-n - 1)[j]]
Zeros(n) == [j \in 1..n |-> 0]
\* n payload bytes, all non-zero, starting after base
Ramp(n, base) == [j \in 1..n |-> 1 + ((base + j) % 127)]

\* IEEE-754 singles, little-endian
F32Zero == <<0, 0, 0, 0>>
F32Half == <<0, 0, 0, 63>>
F32One == <<0, 0, 128, 63>>
F32Two == <<0, 0, 0, 64>>
F32MinusOne == <<0, 0, 128, 191>>
F32Of(k) == <<F32Zero, F32Half, F32One, F32Two>>[(k % 4) + 1]

\* all sequences over S of length 0..n
RECURSIVE SeqsUpTo(_, _)
SeqsUpTo(S, n) ==
    IF n = 0 THEN {<<>>}
    ELSE LET shorter == SeqsUpTo(S, n - 1)
         IN  shorter \cup {Append(q, x) : q \in {r \in shorter : Len(r) = n - 1}, x \in S}

\* the first k bytes of a file
Truncate(f, k) == SubSeq(f, 1, k)

\* bytes per pixel of a single Quake-style skin as the format stores it
SkinBpp(t) == IF t \in {2, 3} THEN 2 ELSE IF t = 4 THEN 3 ELSE IF t = 5 THEN 4 ELSE 1

\* one skin of an IDPO file: type code, then its pixels; a group (1) holds
\* two images with their display times; 9 is a code no decoder knows
IdpoSkinBytes(t, k) ==
    IF t = 1
    THEN LE32(1) \o LE32(2) \o F32Zero \o F32One
         \o Ramp(SkinW * SkinH, 16 * k) \o Ramp(SkinW * SkinH, 16 * k + 8)
    ELSE LE32(t) \o Ramp(SkinW * SkinH * SkinBpp(t), 16 * k)

\* triangle j of a file with nv vertices; a bad triangle names vertex nv
TriIndices(j, nv, bad) ==
    IF bad \/ nv = 0 THEN <<nv, 0, 0>>
    ELSE <<j % nv, (j + 1) % nv, (j + 2) % nv>>

\* The files come in two looks.  "ramp": scale (2, 1, 0.5), translate
\* (0, 1, -1), packed vertices that differ by vertex and by frame, normal
\* index j.  "plain": scale (2, 2, 2), translate (0, 0, 0), vertex 1
\* packed as (10, 20, 30) with normal index 0.
ScaleBytes(look) ==
    IF look = "plain" THEN F32Two \o F32Two \o F32Two ELSE F32Two \o F32One \o F32Half
TranslateBytes(look) ==
    IF look = "plain" THEN F32Zero \o F32Zero \o F32Zero
    ELSE F32Zero \o F32One \o F32MinusOne

\* the packed vertex j of frame f: three bytes, or three words of a
\* word-packed frame, and the normal index
PackedAs(look, words, j, f) ==
    IF look = "plain" THEN <<10 * j, 20 * j, 30 * j, j - 1>>
    ELSE IF words THEN <<300 * j + f, 500 * j + f, 700 * j + f, j>>
    ELSE <<10 * j + f, 20 * j + f, 30 * j + f, j>>

\* one frame: type 0 is a simple frame, any other type a group frame
IdpoFrameBytesAs(look, t, f, nv) ==
    IF t = 0
    THEN LE32(0) \o <<0, 0, 0, 0>> \o <<127, 127, 127, 0>>
         \o <<102, 48 + f>> \o Zeros(14)
         \o Flatten([j \in 1..nv |-> PackedAs(look, FALSE, j, f)])
    ELSE LE32(t) \o LE32(1) \o Zeros(8)

IdpoFileAs(look, skins, nv, nt, bad, ftypes) ==
    TagIDPO \o LE32(6)
    \o ScaleBytes(look)
    \o TranslateBytes(look)
    \o F32One \o F32Zero \o F32Zero \o F32Zero
    \o LE32(Len(skins)) \o LE32(SkinW) \o LE32(SkinH)
    \o LE32(nv) \o LE32(nt) \o LE32(Len(ftypes))
    \o LE32(0) \o LE32(0) \o F32One
    \o Flatten([k \in 1..Len(skins) |-> IdpoSkinBytes(skins[k], k)])
    \o Flatten([j \in 1..nv |-> LE32(j % 2) \o LE32(j) \o LE32(j + 1)])
    \o Flatten([j \in 1..nt |-> LE32(1) \o Flatten([c \in 1..3 |->
                                    LE32(TriIndices(j, nv, bad)[c])])])
    \o Flatten([f \in 1..Len(ftypes) |-> IdpoFrameBytesAs(look, ftypes[f], f, nv)])

IdpoFile(skins, nv, nt, bad, ftypes) == IdpoFileAs("ramp", skins, nv, nt, bad, ftypes)

\* one skin of an MDL3/4/5 file: type code, for MDL5 its own width and height,
\* the base image and, when bit 3 is set, three mipmap levels
GsSkinBytes(tag, t, k) ==
    LE32(t)
    \o (IF tag = TagMDL5 THEN LE32(SkinW) \o LE32(SkinH) ELSE <<>>)
    \o Ramp(SkinW * SkinH * GsBpp(t % 8), 16 * k)
    \o (IF (t \div 8) % 2 = 1
        THEN Ramp(MipmapBytes(SkinW, SkinH, GsBpp(t % 8)), 16 * k + 64) ELSE <<>>)

\* a signed short, two's complement
LES16(n) == LE16((n + 65536) % 65536)

\* triangle j: "good" has every index in range, "big" names vertex nv and
\* skin vertex nsv, "neg" holds the index -1
GsTriIndices(j, nv, nsv, mode) ==
    CASE mode = "good" -> <<j % nv, (j + 1) % nv, (j + 2) % nv,
                            j % nsv, (j + 1) % nsv, (j + 2) % nsv>>
      [] mode = "big" -> <<nv, 0, 0, nsv, 0, 0>>
      [] mode = "neg" -> <<0, -1, 0, 0, 0, -1>>

\* one frame: type 0 byte-packed, type 2 word-packed
GsFrameBytesAs(look, t, f, nv) ==
    IF t = 0
    THEN LE32(0) \o <<0, 0, 0, 0>> \o <<127, 127, 127, 0>>
         \o <<102, 48 + f>> \o Zeros(14)
         \o Flatten([j \in 1..nv |-> PackedAs(look, FALSE, j, f)])
    ELSE LE32(t) \o Zeros(8) \o <<127, 127, 127, 127, 127, 127, 0, 0>>
         \o <<119, 48 + f>> \o Zeros(14)
         \o Flatten([j \in 1..nv |->
                LET v == PackedAs(look, TRUE, j, f)
                IN  LE16(v[1]) \o LE16(v[2]) \o LE16(v[3]) \o <<v[4], 0>>])

Mdl345FileAs(look, tag, skins, nv, nsv, nt, mode, ftypes) ==
    tag \o LE32(0)
    \o ScaleBytes(look)
    \o TranslateBytes(look)
    \o LE32(0) \o F32Zero \o F32Zero \o F32Zero
    \o LE32(Len(skins)) \o LE32(SkinW) \o LE32(SkinH)
    \o LE32(nv) \o LE32(nt) \o LE32(Len(ftypes)) \o LE32(nsv)
    \o LE32(0) \o LE32(0)
    \o Flatten([k \in 1..Len(skins) |-> GsSkinBytes(tag, skins[k], k)])
    \o Flatten([j \in 1..nsv |-> LES16(j) \o LES16(j + 1)])
    \o Flatten([j \in 1..nt |-> Flatten([c \in 1..6 |->
                                    LES16(GsTriIndices(j, nv, nsv, mode)[c])])])
    \o Flatten([f \in 1..Len(ftypes) |-> GsFrameBytesAs(look, ftypes[f], f, nv)])

Mdl345File(tag, skins, nv, nsv, nt, mode, ftypes) ==
    Mdl345FileAs("ramp", tag, skins, nv, nsv, nt, mode, ftypes)

\* one file for each look, variant and packing: MaxVerts vertices and
\* MaxFrames frames, all byte-packed (0) or all word-packed (2)
PackedCases ==
    {c \in [look : {"ramp", "plain"}, tag : {TagIDPO, TagMDL3, TagMDL4, TagMDL5},
            ftype : {0, 2}] : c.tag = TagIDPO => c.ftype = 0}

PackedFile(c) ==
    IF c.tag = TagIDPO
    THEN IdpoFileAs(c.look, <<0>>, MaxVerts, MaxTris, FALSE, [f \in 1..MaxFrames |-> 0])
    ELSE Mdl345FileAs(c.look, c.tag, <<0>>, MaxVerts, MaxVerts + 1, MaxTris, "good",
                      [f \in 1..MaxFrames |-> c.ftype])

PackedFiles == {PackedFile(c) : c \in PackedCases}

\* skin type codes of the Gamestudio input files: 8-bit, 565 with mipmaps,
\* and a code whose low 3 bits select no pixel kind
GsSkinCodes == {0, 10, 6}

\* n byte-packed frames or n word-packed frames
GsFrameTypeSeqs ==
    {[f \in 1..n |-> 0] : n \in 0..MaxFrames}
    \cup {[f \in 1..n |-> 2] : n \in 1..MaxFrames}

Mdl345Files ==
    {Mdl345File(tag, sk, nv, nv + 1, nt, mode, ft) :
        tag \in {TagMDL3, TagMDL4, TagMDL5}, sk \in SeqsUpTo(GsSkinCodes, MaxSkins),
        nv \in 1..MaxVerts, nt \in 1..MaxTris, mode \in {"good", "big", "neg"},
        ft \in GsFrameTypeSeqs}
    \cup {Mdl345File(tag, <<>>, 0, 0, 0, "good", <<>>) : tag \in {TagMDL3, TagMDL4, TagMDL5}}

\* a single-mesh file cut at every byte offset
GsSweepFile == Mdl345File(TagMDL5, <<10>>, MaxVerts, MaxVerts, MaxTris, "good", <<0, 2>>)

\* skins large enough to have mipmap levels: width and height
MipSizes == {<<8, 8>>, <<4, 3>>, <<4, 2>>}

\* the five pixel kinds, each without and with bit 3 set
MipSkinCodes == {0, 2, 3, 4, 5, 8, 10, 11, 12, 13}

\* a single-mesh file of one skin of the size wh and one skin vertex behind
\* it; an MDL5 file carries the size in the skin, its header names another
MipFile(tag, t, wh) ==
    LET bpp == GsBpp(t % 8)
    IN  tag \o LE32(0)
        \o ScaleBytes("ramp") \o TranslateBytes("ramp")
        \o LE32(0) \o F32Zero \o F32Zero \o F32Zero
        \o LE32(1)
        \o (IF tag = TagMDL5 THEN LE32(SkinW) \o LE32(SkinH)
            ELSE LE32(wh[1]) \o LE32(wh[2]))
        \o LE32(0) \o LE32(0) \o LE32(0) \o LE32(1)
        \o LE32(0) \o LE32(0)
        \o LE32(t)
        \o (IF tag = TagMDL5 THEN LE32(wh[1]) \o LE32(wh[2]) ELSE <<>>)
        \o Ramp(wh[1] * wh[2] * bpp, 0)
        \o (IF (t \div 8) % 2 = 1
            THEN Ramp(MipmapBytes(wh[1], wh[2], bpp), 64) ELSE <<>>)
        \o LES16(1) \o LES16(2)

MipFiles ==
    {MipFile(tag, t, wh) :
        tag \in {TagMDL3, TagMDL4, TagMDL5}, t \in MipSkinCodes, wh \in MipSizes}

\* skin type codes of the input files: 0, 1, 2 are the Quake codes
SkinCodes == {0, 1, 2, 3, 9}
QuakeSkinCodes == {0, 1, 2}

\* n simple frames, or n - 1 simple frames and then a group frame
FrameTypeSeqs ==
    {[f \in 1..n |-> 0] : n \in 0..MaxFrames}
    \cup {[f \in 1..n |-> IF f = n THEN 1 ELSE 0] : n \in 1..MaxFrames}

\* what the format calls valid: known skin codes, simple frames, indices in range
ValidIdpoFiles ==
    {IdpoFile(sk, nv, nt, FALSE, [f \in 1..nf |-> 0]) :
        sk \in SeqsUpTo(QuakeSkinCodes, MaxSkins), nv \in 1..MaxVerts,
        nt \in 0..MaxTris, nf \in 0..MaxFrames}
    \cup {IdpoFile(sk, 0, 0, FALSE, <<>>) : sk \in SeqsUpTo(QuakeSkinCodes, MaxSkins)}

IdpoFiles ==
    {IdpoFile(sk, nv, nt, bad, ft) :
        sk \in SeqsUpTo(SkinCodes, MaxSkins), nv \in 0..MaxVerts, nt \in 0..MaxTris,
        bad \in BOOLEAN, ft \in FrameTypeSeqs}

\* the valid files that are cut at every byte offset
SweepFiles ==
    {IdpoFile(sk, MaxVerts, MaxTris, FALSE, <<0>>) : sk \in SeqsUpTo(QuakeSkinCodes, 1)}
    \cup {IdpoFile(<<t>>, 0, 0, FALSE, <<>>) : t \in QuakeSkinCodes}

TruncatedFiles == UNION {{Truncate(f, k) : k \in 0..(Len(f) - 1)} : f \in SweepFiles}

\* the sizes an MDL7 file declares for its structures: bone, skin, colour
\* value, material, skin point, triangle, main vertex, frame vertex, bone
\* transform, frame
Mdl7Sizes == <<32, 28, 16, 68, 8, 26, 26, 26, 52, 24>>

\* one skin of an MDL7 file: the 28-byte structure, then the base image and
\* its mipmaps when the type holds pixels
Mdl7SkinBytes(t, k) ==
    LET holds == (t \div 16) % 2 = 0 /\ Mdl7Bpp(t % 8) > 0
    IN  <<t, 0, 0, 0>> \o LES32(SkinW) \o LES32(SkinH)
        \o <<115, 48 + k>> \o Zeros(14)
        \o (IF holds THEN Ramp(SkinW * SkinH * Mdl7Bpp(t % 8), 16 * k) ELSE <<>>)
        \o (IF holds /\ (t \div 8) % 2 = 1
            THEN Ramp(MipmapBytes(SkinW, SkinH, Mdl7Bpp(t % 8)), 16 * k + 64)
            ELSE <<>>)

\* the indices triangle j of a group of nv vertices and nst skin points
\* holds, counted within the group
Mdl7TriIndices(j, nv, nst) ==
    <<j % nv, (j + 1) % nv, (nv - 1 - j) % nv,
      j % nst, (j + 1) % nst, (nst - 1 - j) % nst>>

\* triangle j of a group, 26 bytes: vertex indices, then two skin sets of
\* which the first holds the UV indices
Mdl7TriBytes(j, nv, nst) ==
    Flatten([c \in 1..6 |-> LE16(Mdl7TriIndices(j, nv, nst)[c])]) \o Zeros(14)

\* a frame of a group: its name, the frame vertices it overrides (the
\* vertex each names, nv and more naming none) and its bone transforms
Mdl7FrameBytes(fr, f, g) ==
    <<102, 48 + g, 48 + f>> \o Zeros(13)
    \o LES32(Len(fr.overrides)) \o LES32(fr.trans)
    \o Flatten([i \in 1..Len(fr.overrides) |->
           F32Of(f + i + 1) \o F32Of(f + i + 2) \o F32Of(f + i + 3)
           \o LE16(fr.overrides[i]) \o Zeros(12)])
    \o Zeros(Max(fr.trans, 0) * Mdl7Sizes[9])

\* a group: 44-byte header, skins, skin points, triangles, main vertices,
\* frames; gr.counts overrides a count the header declares
Mdl7GroupBytes(gr, g) ==
    <<1, 0, 0, 0>> \o LES32(0) \o <<103, 48 + g>> \o Zeros(14)
    \o LES32(Len(gr.skins))
    \o LES32(IF "num_stpts" \in DOMAIN gr.counts THEN gr.counts.num_stpts ELSE gr.nst)
    \o LES32(gr.nt)
    \o LES32(IF "num_verts" \in DOMAIN gr.counts THEN gr.counts.num_verts ELSE gr.nv)
    \o LES32(Len(gr.frames))
    \o Flatten([k \in 1..Len(gr.skins) |-> Mdl7SkinBytes(gr.skins[k], k)])
    \o Flatten([i \in 1..gr.nst |-> F32Of(i + g) \o F32Of(i + g + 1)])
    \o Flatten([j \in 1..gr.nt |-> Mdl7TriBytes(j - 1, gr.nv, gr.nst)])
    \o Flatten([i \in 1..gr.nv |->
           F32Of(i + g) \o F32Of(i + g + 1) \o F32Of(i + g + 2) \o Zeros(14)])
    \o Flatten([f \in 1..Len(gr.frames) |-> Mdl7FrameBytes(gr.frames[f], f, g)])

\* an MDL7 file: header, bones, groups
Mdl7File(bones_num, bone_size, groups_num, groups) ==
    TagMDL7 \o LES32(0) \o LES32(bones_num) \o LES32(groups_num)
    \o LES32(0) \o LES32(0) \o LES32(0)
    \o LE16(bone_size)
    \o Flatten([k \in 1..(Len(Mdl7Sizes) - 1) |-> LE16(Mdl7Sizes[k + 1])])
    \o Zeros(Max(bones_num, 0) * bone_size)
    \o Flatten([g \in 1..Len(groups) |-> Mdl7GroupBytes(groups[g], g - 1)])

\* a frame that overrides the vertices named and skips trans transforms
Mdl7Frame(overrides, trans) == [overrides |-> overrides, trans |-> trans]

\* nf frames of a group of nv vertices: frame f overrides vertex f - 1, the
\* last one also names a vertex the group has not
Mdl7FramesOf(nf, nv) ==
    [f \in 1..nf |->
        Mdl7Frame(IF f = nf THEN <<(f - 1) % Max(nv, 1), nv>> ELSE <<(f - 1) % Max(nv, 1)>>,
                  f % 2)]

\* a group of the skins given, nst skin points, nt triangles, nv vertices
\* and nf frames
Mdl7Group(skins, nst, nt, nv, nf) ==
    [skins |-> skins, nst |-> nst, nt |-> nt, nv |-> nv,
     frames |-> Mdl7FramesOf(nf, nv), counts |-> [none |-> 0]]

\* skin types: 8/16/24/32-bit images, with mipmaps (8), a material (1 and
\* bit 4), a DDS file (6), an external file (7)
Mdl7SkinCodes == {0, 2, 3, 4, 5, 8, 1, 16, 6, 7}

\* files of one group, by the skins it holds
Mdl7SkinFiles ==
    {Mdl7File(0, Mdl7Sizes[1], 1, <<Mdl7Group(sk, MaxVerts, MaxTris, MaxVerts, MaxFrames)>>) :
        sk \in SeqsUpTo(Mdl7SkinCodes, MaxSkins) \cup {<<0, 4>>, <<1, 0>>, <<6, 7>>}}

\* the skin types of the groups of the files of several skins: two images
\* in a group, an image behind a material, images in two groups, an image
\* in the second group alone, no image at all
Mdl7SkinLists ==
    {<<<<0, 4>>>>, <<<<1, 2>>, <<5>>>>, <<<<>>, <<4>>>>, <<<<6, 7>>, <<>>>>,
     <<<<10>>, <<3, 0>>>>, <<<<2>>, <<16>>, <<5, 0>>>>}

\* the file of groups of the skins given, each of 2 vertices
Mdl7SkinsFile(lists) ==
    Mdl7File(0, Mdl7Sizes[1], Len(lists),
             [g \in 1..Len(lists) |-> Mdl7Group(lists[g], 2, 1, 2, 1)])

Mdl7SkinsFiles == {Mdl7SkinsFile(lists) : lists \in Mdl7SkinLists}

\* groups of 5, 7 and 2 vertices, 3, 4 and 2 skin points
Mdl7First(nf) == Mdl7Group(<<0>>, 3, MaxTris + 1, 5, nf)
Mdl7Second(nf) == Mdl7Group(<<>>, 4, MaxTris + 1, 7, nf)
Mdl7Third(nf) == Mdl7Group(<<>>, 2, MaxTris, 2, nf)

\* the groups of a file of several: two, by the frames each declares, or
\* three
Mdl7GroupLists ==
    {<<Mdl7First(nf0), Mdl7Second(nf1)>> : nf0 \in 0..MaxFrames, nf1 \in 0..MaxFrames}
    \cup {<<Mdl7First(1), Mdl7Second(1), Mdl7Third(1)>>}

Mdl7GroupFiles ==
    {Mdl7File(b, Mdl7Sizes[1], Len(gs), gs) : b \in {0, 1}, gs \in Mdl7GroupLists}

\* files with a negative count: of bones (the skip lands on the start of
\* the buffer, or before it), of groups, of the skin points or the vertices
\* of a group, of the bone transforms of the last frame
Mdl7SignedFiles ==
    LET g == Mdl7Group(<<0>>, MaxVerts, MaxTris, MaxVerts, MaxFrames)
        last(t) == [g EXCEPT !.frames[MaxFrames].trans = t]
    IN  {Mdl7File(-1, Mdl7HeaderSize, 1, <<g>>),
         Mdl7File(-2, Mdl7Sizes[1], 1, <<g>>),
         Mdl7File(0, Mdl7Sizes[1], -1, <<g>>),
         Mdl7File(0, Mdl7Sizes[1], 0, <<>>),
         Mdl7File(0, Mdl7Sizes[1], 2,
                  <<[g EXCEPT !.nv = 0, !.nt = 0, !.frames = <<>>,
                              !.counts = [num_verts |-> -1]], g>>),
         Mdl7File(0, Mdl7Sizes[1], 2,
                  <<[g EXCEPT !.nst = 0, !.nt = 0, !.counts = [num_stpts |-> -1]], g>>),
         Mdl7File(0, Mdl7Sizes[1], 1, <<last(-1)>>),
         Mdl7File(0, Mdl7Sizes[1], 1, <<last(-100)>>)}

\* a file that goes through every loop of the decoder, and its truncations
Mdl7SweepFile ==
    Mdl7File(1, Mdl7Sizes[1], 1, <<Mdl7Group(<<8>>, 1, 1, 1, 1)>>)

Mdl7Files ==
    Mdl7SkinFiles \cup Mdl7GroupFiles \cup Mdl7SignedFiles \cup Mdl7SkinsFiles
    \cup {Truncate(Mdl7SweepFile, k) : k \in 0..Len(Mdl7SweepFile)}

\* a file of a format no loader knows
UnknownTagFile == <<88, 77, 68, 76>> \o Zeros(IdpoHeaderSize - 4)

MdlInputs ==
    IdpoFiles \cup TruncatedFiles \cup {UnknownTagFile} \cup Mdl345Files \cup Mdl7Files
    \cup PackedFiles \cup MipFiles \cup {GsSweepFile}
    \cup {Truncate(GsSweepFile, k) : k \in 0..(Len(GsSweepFile) - 1)}

----------------------------------------------------------------------------
(* Input worlds.  One world holds a ring of MaxLoop vertices, the edges of *)
(* the ring, the chords that close the shorter loops, and a pool of runs   *)
(* of surfedges; a face is a window on the pool.                           *)

RECURSIVE TotalLen(_)
TotalLen(ss) == IF ss = <<>> THEN 0 ELSE Len(Head(ss)) + TotalLen(Tail(ss))


\* a file of the lists given, laid out one after the other behind the
\* directory; an empty list has the offset absent and the length 0, and
\* the list i of DOMAIN lengths declares lengths[i] whatever it holds
WmbFileOf(tag, lumps, absent, lengths) ==
    LET n == Len(lumps)
        Off(i) == 4 + 8 * n + TotalLen(SubSeq(lumps, 1, i - 1))
    IN  tag
        \o Flatten([i \in 1..n |->
                LE32(IF lumps[i] = <<>> THEN absent ELSE Off(i))
                \o LE32(IF i \in DOMAIN lengths THEN lengths[i] ELSE Len(lumps[i]))])
        \o Flatten(lumps)

\* a file whose empty lists have offset 0
WmbFile(tag, lumps) == WmbFileOf(tag, lumps, 0, <<>>)

\* an offset far beyond the end of every file
Far == 100000

\* the lists of a world: textures 3, vertices 4, materials 7, faces 8,
\* edges 13, skins 14, objects 16
WorldLumps(n, textures, vertices, materials, faces, edges, skins, objects) ==
    [i \in 1..n |->
        CASE i = 3 -> textures [] i = 4 -> vertices [] i = 7 -> materials
          [] i = 8 -> faces [] i = 13 -> edges [] i = 14 -> skins
          [] i = 16 -> objects [] OTHER -> <<>>]

NumLists(tag) == IF tag = TagWMB4 THEN Len(Wmb4Lists) ELSE Len(Wmb6Lists)

\* the vertices of the ring
RingVertexBytes ==
    Flatten([i \in 1..MaxLoop |-> F32Of(i) \o F32Of(i + 1) \o F32Of(0)])

\* edge i of the ring runs from vertex i - 1 to vertex i; chord k runs from
\* vertex k + 1 to vertex 0 and closes the loop of k + 2 vertices
RingEdges ==
    [i \in 1..MaxLoop |-> <<i - 1, i % MaxLoop>>]
    \o [k \in 1..(MaxLoop - 3) |-> <<k + 1, 0>>]

EdgeBytes(edges) ==
    Zeros(8) \o Flatten([i \in 1..Len(edges) |-> LE32(edges[i][1]) \o LE32(edges[i][2])])

\* the whole ring forwards, the whole ring backwards, the ring with its
\* second edge against the direction, the triangle closed by a chord, and
\* two surfedges that name no edge
SurfPool ==
    [i \in 1..MaxLoop |-> i]
    \o [i \in 1..MaxLoop |-> i - MaxLoop - 1]
    \o [i \in 1..MaxLoop |-> IF i = 2 THEN -i ELSE i]
    \o <<1, 2, MaxLoop + 1>>
    \o <<0, Len(RingEdges) + 1>>

SurfBytes(surfedges) == Flatten([i \in 1..Len(surfedges) |-> LES32(surfedges[i])])

\* a face record: flags, first surfedge, vertex count and texinfo index
FaceBytes(first, num, tex_idx) ==
    LE32(1) \o LE32(first) \o LE32(num + 65536 * tex_idx) \o Zeros(8) \o LE32(first % 3)

\* one texinfo: s along x, t along y, texture 0
TexInfoBytes ==
    F32One \o F32Zero \o F32Zero \o F32Zero
    \o F32Zero \o F32One \o F32Zero \o F32Half
    \o LE32(0) \o LE32(0) \o Zeros(24)

\* the pixels of texture k
Pixels(n, k) == Ramp(n, 16 * k)

\* a texture of w x h as the format lays it out: a 40-byte image header
\* (16-byte name, width, height, type, three reserved words of which the
\* first holds the size of the image with its header), then the pixels
TextureBytesOf(w, h, tex_type, bpp, k) ==
    <<116, 48 + k>> \o Zeros(14) \o LE32(w) \o LE32(h) \o LE32(tex_type)
    \o LE32(w * h * bpp + 40) \o LE32(0) \o LE32(0)
    \o Pixels(w * h * bpp, k)

TextureBytes(tex_type, bpp, k) == TextureBytesOf(SkinW, SkinH, tex_type, bpp, k)

\* a list of entries behind the table of their offsets
Table(entries) ==
    LET n == Len(entries)
    IN  LE32(n)
        \o Flatten([i \in 1..n |-> LE32(4 + 4 * n + TotalLen(SubSeq(entries, 1, i - 1)))])
        \o Flatten(entries)

TextureLump == Table(<<TextureBytes(8, 2, 1), TextureBytes(48, 3, 2), TextureBytes(99, 2, 3)>>)

\* an object of the type given: origin, then what the type holds
ObjectBytes(obj_type) ==
    LE32(obj_type) \o F32One \o F32Two \o F32Half
    \o (CASE obj_type = 5 -> F32Half \o F32One
          [] obj_type = 1 -> F32Zero \o F32One \o F32Zero \o Zeros(8)
                             \o <<112, 49>> \o Zeros(18)
          [] obj_type = 2 -> F32One \o F32Half \o F32Zero \o F32Two
          [] obj_type = 3 -> F32Zero \o F32One \o F32Zero \o F32One \o F32One \o F32One
                             \o <<101, 51>> \o Zeros(18) \o <<97, 46, 109>> \o Zeros(10)
          [] obj_type = 7 -> F32Zero \o F32One \o F32Zero \o F32One \o F32One \o F32One
                             \o <<101, 55>> \o Zeros(31) \o <<98, 46, 109>> \o Zeros(30)
          [] OTHER -> <<>>)

ObjectLump == Table([i \in 1..6 |-> ObjectBytes(<<5, 1, 2, 3, 7, 9>>[i])])

\* a world of the faces given, with or without textures, texinfo and objects
World(tag, faces, full) ==
    WmbFile(tag, WorldLumps(NumLists(tag),
        IF full THEN TextureLump ELSE <<>>,
        RingVertexBytes,
        IF full THEN TexInfoBytes ELSE <<>>,
        Flatten([i \in 1..Len(faces) |-> FaceBytes(faces[i][1], faces[i][2], i - 1)]),
        EdgeBytes(RingEdges),
        SurfBytes(SurfPool),
        IF full THEN ObjectLump ELSE <<>>))

\* a WMB6 world whose first texture is 31 x 1 of a type no reader knows
WideWorld ==
    WmbFile(TagWMB6, WorldLumps(NumLists(TagWMB6),
        Table(<<TextureBytesOf(31, 1, 99, 2, 1), TextureBytes(8, 2, 2)>>),
        RingVertexBytes, <<>>, <<>>, EdgeBytes(RingEdges), SurfBytes(SurfPool), <<>>))

\* worlds with absent lists, their entries pointing at the offset given:
\* every list absent; all but the vertices; faces without surfedges
AbsentWorlds(absent) ==
    {WmbFileOf(tag, WorldLumps(NumLists(tag), <<>>, vs, <<>>, fs, <<>>, <<>>, <<>>),
               absent, <<>>) :
        tag \in {TagWMB4, TagWMB6},
        vs \in {<<>>, RingVertexBytes},
        fs \in {<<>>, FaceBytes(0, MaxLoop, 0)}}

\* the textures of a WMB7 world: 8-bit, 565, 888, 8888, a DDS image of
\* SkinW bytes, and a type whose low bits select no kind
Wmb7TextureLump ==
    Table(<<TextureBytes(0, 1, 1), TextureBytes(2, 2, 2), TextureBytes(4, 3, 3),
            TextureBytes(5, 4, 4), TextureBytesOf(SkinW, 1, 6, 1, 5),
            TextureBytes(3, 2, 6)>>)

\* a material: 44 bytes, then its name in 20
MaterialBytes(k) == Zeros(44) \o <<109, 48 + k>> \o Zeros(18)

\* a block of nv vertices, nt triangles and ns skins
BlockBytes(nv, nt, ns) ==
    F32Zero \o F32Zero \o F32Zero \o F32One \o F32One \o F32Two
    \o LE32(1) \o LE32(nv) \o LE32(nt) \o LE32(ns)
    \o Flatten([i \in 1..nv |->
           F32Of(i) \o F32Of(i + 1) \o F32Of(i + 2) \o F32Half \o F32One
           \o F32Zero \o F32Half])
    \o Flatten([i \in 1..nt |->
           LES16(0) \o LES16(i % Max(nv, 1)) \o LES16(-1) \o LES16(i - 1) \o LE32(0)])
    \o Flatten([i \in 1..ns |->
           LES16(i - 1) \o LES16(-1) \o LE32(i) \o F32Half \o F32One \o LE32(2)])

\* the lists of a WMB7 world: textures 3, materials 7, objects 16,
\* lightmaps 17, blocks 18
Wmb7Lumps(textures, materials, objects, lightmaps, blocks) ==
    [i \in 1..Len(Wmb7Lists) |->
        CASE i = 3 -> textures [] i = 7 -> materials [] i = 16 -> objects
          [] i = 17 -> lightmaps [] i = 18 -> blocks [] OTHER -> <<>>]

\* the counts of vertices, triangles and skins of the blocks of the
\* worlds of blocks alone
BlockShapes == {<<0, 0, 0>>, <<1, 1, 1>>, <<2, 1, 2>>, <<1, 2, 0>>}

\* a WMB7 world whose only list is the blocks given by their shapes
BlockWorld(shapes) ==
    WmbFileOf(TagWMB7,
        Wmb7Lumps(<<>>, <<>>, <<>>, <<>>,
                  LE32(Len(shapes))
                  \o Flatten([k \in 1..Len(shapes) |->
                        BlockBytes(shapes[k][1], shapes[k][2], shapes[k][3])])),
        0, <<>>)

BlockWorlds == {BlockWorld(shapes) : shapes \in SeqsUpTo(BlockShapes, 3) \ {<<>>}}

\* a WMB7 world with everything in it: its lightmaps list declares one
\* lightmap and holds the first bytes of it
Wmb7World ==
    WmbFileOf(TagWMB7,
        Wmb7Lumps(Wmb7TextureLump, MaterialBytes(1) \o MaterialBytes(2), ObjectLump,
                  Ramp(8, 0),
                  LE32(2) \o BlockBytes(MaxVerts, MaxTris, 1) \o BlockBytes(0, 0, 0)),
        0, 17 :> LmSize)

\* WMB7 worlds with every list absent, and with blocks alone
Wmb7AbsentWorlds(absent) ==
    {WmbFileOf(TagWMB7, Wmb7Lumps(<<>>, <<>>, <<>>, <<>>, bs), absent, <<>>) :
        bs \in {<<>>, LE32(1) \o BlockBytes(1, 1, 1)}}

\* the windows on the pool: a first surfedge and a vertex count
Windows == {<<first, num>> : first \in 0..Len(SurfPool), num \in 0..(MaxLoop + 1)}

\* the closed ring, read forwards
RingFace == <<0, MaxLoop>>

\* a world with everything in it, cut at every byte offset
FullWorld == World(TagWMB6, <<RingFace, <<MaxLoop, MaxLoop>>>>, TRUE)

UnknownVersionFile == <<87, 77, 66, 57>> \o Zeros(8 * Len(Wmb6Lists))

WmbInputs ==
    {World(TagWMB6, <<w>>, FALSE) : w \in Windows}
    \cup {World(TagWMB4, <<w>>, full) : w \in {RingFace, <<1, 2>>, <<0, 0>>}, full \in BOOLEAN}
    \cup {FullWorld, UnknownVersionFile, WideWorld, Wmb7World}
    \cup {Truncate(FullWorld, k) : k \in 0..(Len(FullWorld) - 1)}
    \cup {Truncate(Wmb7World, k) : k \in 0..(Len(Wmb7World) - 1)}
    \cup UNION {AbsentWorlds(a) \cup Wmb7AbsentWorlds(a) : a \in {0, 3, Far}}
    \cup BlockWorlds

----------------------------------------------------------------------------
(* Decode calls of the model viewers: a fresh instance, then load.         *)

Init ==
    /\ data = <<>>
    /\ pc = "constructed"
    /\ offset = 0
    /\ idx = 0
    /\ exc = "none"
    /\ log = {}
    /\ mdl = MDL_new
    /\ prev = NoPrev
    /\ geom = NoGeom
    /\ wmb = WMB_new
    /\ tris = <<>>
    /\ face = NoFace
    /\ loc = NoLoc
    /\ view = NoView

\* model = ModelInstance(); model.mdl = MDL()
Construct == MDL_init /\ geom' = NoGeom /\ UNCHANGED <<prev, wmb, tris, face, view>>

\* self.mdl.load(filename)
Load == MDL_load(MdlInputs)

Next ==
    \/ Construct
    \/ Load
    \/ MDL_load_idpo_header
    \/ MDL_load_idpo_skin
    \/ MDL_load_idpo_texcoord
    \/ MDL_load_idpo_triangle
    \/ MDL_load_frames_idpo
    \/ MDL_load_mdl345_header
    \/ MDL_load_mdl345_skin
    \/ MDL_load_mdl345_skinvert
    \/ MDL_load_mdl345_triangle
    \/ MDL_load_frames_mdl345
    \/ MDL_load_mdl7_header
    \/ MDL_load_mdl7_bones
    \/ MDL_load_mdl7_group
    \/ MDL_load_mdl7_skin
    \/ MDL_load_mdl7_mesh
    \/ MDL_load_mdl7_frame
    \/ MDL_load_mdl7_store
    \/ GameViewer_build_model_geometry

Spec == Init /\ [][Next]_vars

----------------------------------------------------------------------------
(* Decode calls of the game viewer on worlds: a fresh instance, then load, *)
(* then the triangles of its faces.                                        *)

InitWmb ==
    /\ data = <<>>
    /\ pc = "wmb_constructed"
    /\ offset = 0
    /\ idx = 0
    /\ exc = "none"
    /\ log = {}
    /\ mdl = MDL_new
    /\ prev = NoPrev
    /\ geom = NoGeom
    /\ wmb = WMB_new
    /\ tris = <<>>
    /\ face = NoFace
    /\ loc = NoLoc
    /\ view = NoView

\* self.wmb = WMB(); self.triangulated_faces = []
ConstructWmb == WMB_init /\ tris' = <<>> /\ UNCHANGED <<prev, geom, mdl, face, view>>

\* self.wmb.load(filename)
LoadWmb == WMB_load(WmbInputs)

NextWmb ==
    \/ ConstructWmb
    \/ LoadWmb
    \/ WMB_load_lists
    \/ WMB_load_textures
    \/ WMB_load_wmb6_texinfo
    \/ WMB_load_wmb6_vertices
    \/ WMB_load_wmb6_edges
    \/ WMB_load_wmb6_faces
    \/ WMB_load_materials
    \/ WMB_load_lightmaps
    \/ WMB_load_blocks
    \/ WMB_load_objects
    \/ GameViewer_triangulate_faces

SpecWmb == InitWmb /\ [][NextWmb]_vars

----------------------------------------------------------------------------
(* The rebuilding of a face on its own: a run of surfedges over the edges  *)
(* of a triangle, rebuilt as it is and with one surfedge negated.          *)

\* the edges the runs are read over
FaceEdges == [i \in 1..NumFaceEdges |-> <<i - 1, i % NumFaceEdges>>]

\* the surfedges of a run: every edge in both directions, 0, and one past
SurfValues == (-(NumFaceEdges + 1))..(NumFaceEdges + 1)

FaceInputs ==
    {[NoFace EXCEPT !.edges = FaceEdges, !.surfedges = s, !.first_edge = first,
                    !.num_verts = num, !.at = at] :
        s \in SeqsUpTo(SurfValues, MaxRun) \ {<<>>},
        first \in 0..1, num \in {MaxRun - 1, MaxRun}, at \in 1..MaxRun}

InitFace ==
    /\ data = <<>>
    /\ pc = "constructed"
    /\ offset = 0
    /\ idx = 0
    /\ exc = "none"
    /\ log = {}
    /\ mdl = MDL_new
    /\ prev = NoPrev
    /\ geom = NoGeom
    /\ wmb = WMB_new
    /\ tris = <<>>
    /\ face \in {f \in FaceInputs : f.at <= Len(f.surfedges)}
    /\ loc = NoLoc
    /\ view = NoView

\* the run with the surfedge at one position negated
Negated(surfedges, at) == [surfedges EXCEPT ![at] = -surfedges[at]]

\* lines 223-242 of _load_wmb6_faces applied to the run and to the run negated
Rebuild ==
    /\ ~face.done
    /\ face' = [face EXCEPT
            !.contributions =
                Contributions(face.surfedges, face.edges, face.first_edge, face.num_verts),
            !.vertices =
                FaceVerts(face.surfedges, face.edges, face.first_edge, face.num_verts),
            !.contributions_negated =
                Contributions(Negated(face.surfedges, face.at), face.edges,
                              face.first_edge, face.num_verts),
            !.vertices_negated =
                FaceVerts(Negated(face.surfedges, face.at), face.edges,
                          face.first_edge, face.num_verts),
            !.done = TRUE]
    /\ UNCHANGED <<data, pc, offset, idx, exc, log, mdl, prev, geom, wmb, tris, loc, view>>

NextFace == Rebuild

SpecFace == InitFace /\ [][NextFace]_vars

----------------------------------------------------------------------------
(* Decode calls one after the other, of models and of worlds: every call   *)
(* is a fresh instance and a load.  prev remembers the buffer and the      *)
(* outcome of one earlier call, the last or any before it.                 *)

CallMdlInputs ==
    {IdpoFile(<<t>>, MaxVerts, MaxTris, FALSE, <<0>>) : t \in {0, 1, 9}}
    \cup {IdpoFile(<<0>>, MaxVerts, MaxTris, TRUE, <<0, 1>>),
          Mdl345File(TagMDL3, <<0>>, MaxVerts, MaxVerts, MaxTris, "good", <<0>>),
          Mdl345File(TagMDL5, <<10>>, MaxVerts, MaxVerts, MaxTris, "neg", <<2>>),
          UnknownTagFile}
    \cup {Truncate(IdpoFile(<<0>>, MaxVerts, MaxTris, FALSE, <<0>>), k) :
            k \in {0, IdpoHeaderSize, IdpoHeaderSize + 8}}

CallWmbInputs ==
    {World(TagWMB6, <<RingFace>>, FALSE), World(TagWMB4, <<<<1, 2>>>>, TRUE),
     FullWorld, UnknownVersionFile}
    \cup {Truncate(FullWorld, k) : k \in {0, 4 + 8 * Len(Wmb6Lists), Len(FullWorld) - 1}}

InitCall ==
    /\ data = <<>>
    /\ pc = "constructed"
    /\ offset = 0
    /\ idx = 0
    /\ exc = "none"
    /\ log = {}
    /\ mdl = MDL_new
    /\ prev = [NoPrev EXCEPT !.now = "mdl"]
    /\ geom = NoGeom
    /\ wmb = WMB_new
    /\ tris = <<>>
    /\ face = NoFace
    /\ loc = NoLoc
    /\ view = NoView

\* the call that is over, as it is remembered when a call of `kind` starts
Outcome(kind) ==
    [now |-> kind, set |-> TRUE, kind |-> prev.now, data |-> data,
     out |-> IF prev.now = "mdl" THEN mdl ELSE wmb, exc |-> exc, log |-> log]

\* a call of `kind` starts: the call that is over is remembered, or the one
\* remembered before is kept
Remember(kind) ==
    \/ prev' = Outcome(kind)
    \/ prev.set /\ prev' = [prev EXCEPT !.now = kind]

\* model.mdl = MDL()
NewMdlCall == MDL_init /\ Remember("mdl") /\ UNCHANGED <<geom, wmb, tris, face, view>>

\* self.wmb = WMB()
NewWmbCall == WMB_init /\ Remember("wmb") /\ UNCHANGED <<geom, mdl, tris, face, view>>

CallMdl == MDL_load(CallMdlInputs)

CallWmb == WMB_load(CallWmbInputs)

NextCall ==
    \/ NewMdlCall
    \/ NewWmbCall
    \/ CallMdl
    \/ CallWmb
    \/ MDL_load_idpo_header
    \/ MDL_load_idpo_skin
    \/ MDL_load_idpo_texcoord
    \/ MDL_load_idpo_triangle
    \/ MDL_load_frames_idpo
    \/ MDL_load_mdl345_header
    \/ MDL_load_mdl345_skin
    \/ MDL_load_mdl345_skinvert
    \/ MDL_load_mdl345_triangle
    \/ MDL_load_frames_mdl345
    \/ WMB_load_lists
    \/ WMB_load_textures
    \/ WMB_load_wmb6_texinfo
    \/ WMB_load_wmb6_vertices
    \/ WMB_load_wmb6_edges
    \/ WMB_load_wmb6_faces
    \/ WMB_load_objects

SpecCall == InitCall /\ [][NextCall]_vars

----------------------------------------------------------------------------
(* Loads one after the other on one instance: after a load is over the     *)
(* same instance loads a second time.  prev.now tells the kind of the      *)
(* instance and whether it has loaded twice; prev remembers the buffer and *)
(* the outcome of one first load of a fresh instance.                      *)

AgainMdlInputs ==
    {IdpoFile(<<0>>, MaxVerts, MaxTris, FALSE, <<0>>),
     Mdl345File(TagMDL3, <<0>>, MaxVerts, MaxVerts, MaxTris, "good", <<0>>),
     Mdl7SkinsFile(<<<<2>>, <<0>>>>),
     UnknownTagFile}

AgainWmbInputs ==
    {World(TagWMB6, <<RingFace>>, FALSE), World(TagWMB4, <<<<1, 2>>>>, TRUE),
     BlockWorld(<<<<1, 1, 1>>>>), UnknownVersionFile}

InitAgain ==
    /\ data = <<>>
    /\ pc = "constructed"
    /\ offset = 0
    /\ idx = 0
    /\ exc = "none"
    /\ log = {}
    /\ mdl = MDL_new
    /\ prev = [NoPrev EXCEPT !.now = "mdl"]
    /\ geom = NoGeom
    /\ wmb = WMB_new
    /\ tris = <<>>
    /\ face = NoFace
    /\ loc = NoLoc
    /\ view = NoView

\* a fresh instance of `kind` is made: the load that is over is remembered
\* when it was the first of its instance, or what was remembered is kept
RememberFirst(kind) ==
    \/ prev.now \in {"mdl", "wmb"} /\ prev' = Outcome(kind)
    \/ prev' = [prev EXCEPT !.now = kind]

\* model.mdl = MDL()
AgainNewMdl == MDL_init /\ RememberFirst("mdl") /\ UNCHANGED <<geom, wmb, tris, face, view>>

\* self.wmb = WMB()
AgainNewWmb == WMB_init /\ RememberFirst("wmb") /\ UNCHANGED <<geom, mdl, tris, face, view>>

\* mdl.load(filename) of a fresh instance
FirstLoadMdl == MDL_load(AgainMdlInputs)

\* wmb.load(filename) of a fresh instance
FirstLoadWmb == WMB_load(AgainWmbInputs)

\* mdl.load(filename) of the instance that has loaded once
LoadMdlAgain ==
    /\ prev.now = "mdl"
    /\ MDL_load_again(AgainMdlInputs)
    /\ prev' = [prev EXCEPT !.now = "mdl again"]
    /\ UNCHANGED <<geom, wmb, tris, face, view>>

\* wmb.load(filename) of the instance that has loaded once
LoadWmbAgain ==
    /\ prev.now = "wmb"
    /\ WMB_load_again(AgainWmbInputs)
    /\ prev' = [prev EXCEPT !.now = "wmb again"]
    /\ UNCHANGED <<geom, mdl, tris, face, view>>

NextAgain ==
    \/ AgainNewMdl
    \/ AgainNewWmb
    \/ FirstLoadMdl
    \/ FirstLoadWmb
    \/ LoadMdlAgain
    \/ LoadWmbAgain
    \/ MDL_load_idpo_header
    \/ MDL_load_idpo_skin
    \/ MDL_load_idpo_texcoord
    \/ MDL_load_idpo_triangle
    \/ MDL_load_frames_idpo
    \/ MDL_load_mdl345_header
    \/ MDL_load_mdl345_skin
    \/ MDL_load_mdl345_skinvert
    \/ MDL_load_mdl345_triangle
    \/ MDL_load_frames_mdl345
    \/ MDL_load_mdl7_header
    \/ MDL_load_mdl7_bones
    \/ MDL_load_mdl7_group
    \/ MDL_load_mdl7_skin
    \/ MDL_load_mdl7_mesh
    \/ MDL_load_mdl7_frame
    \/ MDL_load_mdl7_store
    \/ WMB_load_lists
    \/ WMB_load_textures
    \/ WMB_load_wmb6_texinfo
    \/ WMB_load_wmb6_vertices
    \/ WMB_load_wmb6_edges
    \/ WMB_load_wmb6_faces
    \/ WMB_load_materials
    \/ WMB_load_lightmaps
    \/ WMB_load_blocks
    \/ WMB_load_objects

SpecAgain == InitAgain /\ [][NextAgain]_vars

----------------------------------------------------------------------------
(* Properties of the model decoder.                                        *)

KnownMdlTags == {TagIDPO, TagMDL3, TagMDL4, TagMDL5, TagMDL7}

\* the tag of the file of the running call
Tag == Slice(data, 0, 4)

\* C1: the first 4 bytes select the decoder (IDPO the Quake-style one,
\* MDL3/MDL4/MDL5 the single-mesh one, MDL7 the multi-group one) and a load
\* of a file with any other tag ends in an error.
C1_DispatchOrError ==
    /\ pc \in {"idpo"} \cup {IdpoOrder[k] : k \in 1..4} => Tag = TagIDPO
    /\ pc \in {"mdl345"} \cup {Mdl345Order[k] : k \in 1..4} => Tag \in {TagMDL3, TagMDL4, TagMDL5}
    /\ pc = "mdl7" => Tag = TagMDL7
    /\ (Finished /\ Len(data) >= 4 /\ Tag \notin KnownMdlTags) => pc = "raised"

\* the file of the call is a valid file cut before its end
IsCut == \E f \in SweepFiles : Len(data) < Len(f) /\ data = Truncate(f, Len(data))

\* C2: decoding a valid file cut at any byte offset before its end yields an
\* error, never a structure.
C2_TruncationFails == (Finished /\ IsCut) => pc = "raised"

\* a skin whose type code is not 0, 1 or 2 was met by the running call
OtherSkinMet ==
    \/ "Unknown skin type" \in log
    \/ \E k \in 1..Len(mdl.skins) :
        mdl.skins[k].type \in {"single_16bit_4444", "single_24bit_888", "single_32bit_8888"}

\* C3: a Quake-style skin whose type code is not 0, 1 or 2 makes the decode
\* fail: the call does not go on to the later sections and stores no skin
\* of another pixel kind.
C3_UnknownSkinFails == (Tag = TagIDPO /\ OtherSkinMet) => pc = "raised"

\* C4: as soon as a frame with a non-zero frame-type is met the call stops
\* with an error and returns no Model.
C4_GroupFrameFails == "Group frame not implemented" \in log => pc = "raised"

\* C10: for every valid Quake-style file, each decoded frame has exactly
\* num_verts positions and the three vertex indices of each decoded
\* triangle are smaller than num_verts.
C10_ValidIdpoCounts ==
    (data \in ValidIdpoFiles /\ pc \in {IdpoOrder[k] : k \in 1..4} \cup {"returned"}) =>
        /\ \A f \in 1..Len(mdl.frames) :
            Len(mdl.frames[f].verts) = mdl.header.num_verts
        /\ \A t \in 1..Len(mdl.triangles) : \A c \in 2..4 :
            mdl.triangles[t][c] < mdl.header.num_verts

\* a valid file with triangles and frames has been decoded to its end
C10_Witness ==
    /\ pc = "returned"
    /\ data \in ValidIdpoFiles
    /\ Len(mdl.triangles) = MaxTris
    /\ Len(mdl.frames) = MaxFrames
    /\ mdl.header.num_verts = MaxVerts

\* C6: every vertex and UV index of a decoded triangle is within its
\* collection, or the consumer substitutes the zero vertex/UV or fails; it
\* never reads another element of the collection.
C6_NoForeignRead ==
    pc \in {"built", "build_raised"} =>
        /\ \A k \in 1..Len(geom.uv) :
            geom.uv[k].elem \in {Zero, Fails} \/ geom.uv[k].elem = geom.uv[k].index
        /\ \A k \in 1..Len(geom.pos) :
            geom.pos[k].elem \in {Zero, Fails} \/ geom.pos[k].elem = geom.pos[k].index

\* the result of the running call: the instance it was made on
Result == IF prev.now = "mdl" THEN mdl ELSE wmb

ClosedLoop(f, w) ==
    LET c == Contributions(w.surfedges, w.edges, f.first_edge, f.num_verts)
    IN  /\ f.num_verts >= 3
        /\ Len(c) = f.num_verts
        /\ \A e \in 1..Len(c) : c[e][2] = c[(e % Len(c)) + 1][1]

\* the vertices of a closed loop in the order of its edges
LoopOrder(f, w) ==
    LET c == Contributions(w.surfedges, w.edges, f.first_edge, f.num_verts)
    IN  [e \in 1..Len(c) |-> c[e][1]]

IsRotation(a, b) ==
    /\ Len(a) = Len(b)
    /\ \E r \in 0..Len(a) : \A i \in 1..Len(a) : a[i] = b[((i - 1 + r) % Len(a)) + 1]

Decoded == pc \in {"returned", "triangulated"}

\* C7: the vertex list of a decoded face whose num_verts surfedges are a
\* closed loop has num_verts entries and is a rotation of the loop's
\* vertex order.
C7_ClosedLoopGivesItsVertices ==
    Decoded => \A k \in 1..Len(wmb.faces) :
        ClosedLoop(wmb.faces[k], wmb) =>
            /\ Len(wmb.faces[k].vertices) = wmb.faces[k].num_verts
            /\ IsRotation(wmb.faces[k].vertices, LoopOrder(wmb.faces[k], wmb))

\* C9: every face of a decoded world is a closed loop of at least 3
\* vertices; a face record that gives no such loop is not among the faces.
C9_FacesAreClosedLoops ==
    Decoded => \A k \in 1..Len(wmb.faces) :
        /\ Len(wmb.faces[k].vertices) >= 3
        /\ ClosedLoop(wmb.faces[k], wmb)

\* the positions of the run whose surfedge is there and names an edge
Named(f) ==
    LET last == Min(f.first_edge + f.num_verts, Len(f.surfedges))
        Names(p) == f.surfedges[p] # 0 /\ Abs(f.surfedges[p]) <= Len(f.edges)
    IN  SelectSeq([e \in 1..(last - f.first_edge) |-> f.first_edge + e], Names)

\* what a surfedge s stands for: edge |s| - 1 counted from 0, as stored
\* when s > 0 and end for end when s < 0
StandsFor(s, edges) ==
    IF s > 0 THEN <<edges[s][1], edges[s][2]>> ELSE <<edges[-s][2], edges[-s][1]>>

\* the vertex list of a sequence of contributions: both ends of the first,
\* the second end of each of the others
Chained(c) ==
    IF c = <<>> THEN <<>> ELSE <<c[1][1]>> \o [j \in 1..Len(c) |-> c[j][2]]

C11_CountsAreLengths ==
    (pc = "returned" /\ mdl.header.ident # <<>>) =>
        /\ mdl.header.num_skins = Len(mdl.skins)
        /\ mdl.header.num_tris = Len(mdl.triangles)
        /\ mdl.header.num_frames = Len(mdl.frames)
        /\ IF mdl.header.ident = TagIDPO
           THEN mdl.header.num_verts = Len(mdl.texcoords)
           ELSE mdl.header.num_skinverts = Len(mdl.skinverts)

\* C12: after a file of several groups is decoded, the position list of
\* every frame is as long as the vertex count of the model, the sum of the
\* vertex counts of the groups, whatever frame counts the groups declare.
\* (That group g's vertices sit behind those of the groups before it
\* presupposes this length.)
C12_FramesHoldEveryGroup ==
    (pc = "returned" /\ data \in Mdl7GroupFiles) =>
        \A f \in 1..Len(mdl.frames) :
            Len(mdl.frames[f].verts) = mdl.header.num_verts

\* the sum of a count over the first n groups of a file
RECURSIVE TotalBefore(_, _, _)
TotalBefore(gs, n, count) ==
    IF n = 0 THEN 0 ELSE TotalBefore(gs, n - 1, count) + gs[n][count]

\* the triangles of the groups of a file in order, each with its vertex
\* indices moved by the vertices and its UV indices by the skin points of
\* the groups before its own
Rebased(gs) ==
    Flatten([g \in 1..Len(gs) |->
        [j \in 1..gs[g].nt |->
            LET held == Mdl7TriIndices(j - 1, gs[g].nv, gs[g].nst)
            IN  [c \in 1..6 |->
                    held[c] + TotalBefore(gs, g - 1, IF c <= 3 THEN "nv" ELSE "nst")]]])

\* C13: the triangles of group g of an MDL7 file are stored with their
\* vertex indices increased by the vertex total and their UV indices by the
\* skin point total of the groups before g; the vertex indices of a
\* triangle of the second group lie from the vertex count of the first up
\* to, not including, the sum of the two (5 and 12 for groups of 5 and 7).
C13_IndicesRebased ==
    \A gs \in Mdl7GroupLists :
        (pc = "returned" /\ \E b \in {0, 1} : data = Mdl7File(b, Mdl7Sizes[1], Len(gs), gs)) =>
            /\ mdl.triangles = Rebased(gs)
            /\ \A j \in 1..gs[2].nt : \A c \in 1..3 :
                /\ mdl.triangles[gs[1].nt + j][c] >= gs[1].nv
                /\ mdl.triangles[gs[1].nt + j][c] < gs[1].nv + gs[2].nv

\* a file of groups of 5 and 7 vertices was decoded: a triangle of the
\* second group names the vertices 5 and 11, and the model has 12 or more
C13_Witness ==
    /\ pc = "returned"
    /\ data \in Mdl7GroupFiles
    /\ mdl.header.num_verts >= 12
    /\ \E t \in 1..Len(mdl.triangles) :
        mdl.triangles[t][1] = 5 /\ mdl.triangles[t][3] = 11

\* twice the scale and the translate a file of a look is written with
TwiceScale(look) == IF look = "plain" THEN <<4, 4, 4>> ELSE <<4, 2, 1>>
Translate(look) == IF look = "plain" THEN <<0, 0, 0>> ELSE <<0, 1, -1>>

\* packed[axis] * scale[axis] + translate[axis] of the vertex j of frame f
\* as it was written, in fixed point
Position(c, j, f) ==
    [axis \in 1..3 |->
        (PackedAs(c.look, c.ftype = 2, j, f)[axis] * TwiceScale(c.look)[axis] * FxOne) \div 2
        + Translate(c.look)[axis] * FxOne]

\* C14: the position of a packed vertex of a Quake-style frame and of a
\* byte-packed or word-packed Gamestudio frame is, axis by axis, packed *
\* scale + translate of its first three components, whatever its normal
\* index; with scale (2, 2, 2), translate (0, 0, 0) and the packed vertex
\* (10, 20, 30, 0) it is exactly (20, 40, 60).
C14_Dequantized ==
    \A c \in PackedCases :
        (pc = "returned" /\ data = PackedFile(c)) =>
            /\ Len(mdl.frames) = MaxFrames
            /\ \A f \in 1..MaxFrames :
                /\ Len(mdl.frames[f].verts) = MaxVerts
                /\ \A j \in 1..MaxVerts : mdl.frames[f].verts[j] = Position(c, j, f)
                /\ c.look = "plain" =>
                    mdl.frames[f].verts[1] = <<20 * FxOne, 40 * FxOne, 60 * FxOne>>

\* a word-packed Gamestudio file with scale (2, 2, 2) and translate
\* (0, 0, 0) was decoded and its first vertex is at (20, 40, 60)
C14_Witness ==
    /\ pc = "returned"
    /\ \E c \in PackedCases :
        c.look = "plain" /\ c.tag = TagMDL5 /\ c.ftype = 2 /\ data = PackedFile(c)
    /\ mdl.header.scale = <<2 * FxOne, 2 * FxOne, 2 * FxOne>>
    /\ mdl.frames[1].verts[1] = <<20 * FxOne, 40 * FxOne, 60 * FxOne>>

\* C15: when an MDL7 file holds a skin that is a material reference, a DDS
\* file or an external file, the decoding does not fail and the skins of
\* the model hold an entry for it that has no pixel data.
C15_EmptySkinRecorded ==
    (Finished /\ data \in Mdl7SkinFiles
     /\ log \cap {"material reference", "DDS file (not supported)", "external file"} # {}) =>
        /\ pc = "returned"
        /\ \E k \in 1..Len(mdl.skins) : mdl.skins[k].data = <<>>

\* the worlds that hold a textures list and are not cut short
TexturedWorlds == {FullWorld, WideWorld, Wmb7World}

\* a type code of a texture that the reader of the version names
Recognized(version, tex_type) ==
    IF version \in {TagWMB4, TagWMB6}
    THEN tex_type \in {40, 8, 2, 48, 16, 4, 56, 24, 5}
    ELSE tex_type % 8 \in {0, 2, 4, 5, 6}

\* the count at the start of the textures list
DeclaredTextures == U32(data, List("textures").offset)

\* C16: a texture whose type code is not recognized does not abort the
\* decoding: it is recorded with format 'unknown' and without pixel data,
\* the other textures of the list are decoded, and the textures are as
\* many as the list declares.
C16_UnknownTextureKept ==
    (Finished /\ data \in TexturedWorlds) =>
        /\ pc = "returned"
        /\ Len(wmb.textures) = DeclaredTextures
        /\ \A k \in 1..Len(wmb.textures) :
            ~Recognized(wmb.version, wmb.textures[k].type) =>
                (wmb.textures[k].format = "unknown" /\ wmb.textures[k].data = None)

\* the start of the image header of texture k: the offset of the list plus
\* the offset the table gives for it
ImageHeader(k) ==
    List("textures").offset + U32(data, List("textures").offset + 4 * k)

\* bytes per pixel of a decoded format
FormatBpp(format) ==
    CASE format = "palette8" -> 1 [] format = "rgb565" -> 2
      [] format = "rgb888" -> 3 [] format = "rgba8888" -> 4

\* C17: the pixel bytes of every texture of a world are the width * height
\* * bytes-per-pixel bytes that start 40 bytes after the start of its image
\* header (16-byte name, width, height, type, three reserved words).
C17_PixelsFollowHeader ==
    (pc = "returned" /\ data \in TexturedWorlds) =>
        \A k \in 1..Len(wmb.textures) :
            LET t == wmb.textures[k]
            IN  t.format \notin {"unknown", "dds"} =>
                    t.data = SubSeq(data, ImageHeader(k) + 40 + 1,
                                    ImageHeader(k) + 40
                                    + t.width * t.height * FormatBpp(t.format))

\* the worlds that hold an objects list and are not cut short
ObjectWorlds ==
    {FullWorld, Wmb7World} \cup {World(TagWMB4, <<w>>, TRUE) : w \in {RingFace, <<1, 2>>, <<0, 0>>}}

\* what an object of a type code is decoded as
KindOf(code) ==
    CASE code = 5 -> "INFO" [] code = 1 -> "POSITION" [] code = 2 -> "LIGHT"
      [] code = 3 -> "OLD_ENTITY" [] code = 7 -> "ENTITY"
      [] OTHER -> <<"TYPE", code>>

\* the type code of record k of the objects list
ObjectCode(k) ==
    U32(data, List("objects").offset + U32(data, List("objects").offset + 4 * k))

\* C18: every record of the objects list gives exactly one entry of the
\* objects of the world, in the order of the list: the types 5, 1, 2, 3, 7
\* as Info, Position, Light, OldEntity, Entity, any other type as a record
\* that carries its code; the load ends without an error and the objects are
\* as many as the list declares.
C18_OneEntryPerObject ==
    (pc \in {"returned", "raised"} /\ data \in ObjectWorlds) =>
        /\ pc = "returned"
        /\ Len(wmb.objects) = U32(data, List("objects").offset)
        /\ \A k \in 1..Len(wmb.objects) :
            /\ wmb.objects[k].index = k - 1
            /\ wmb.objects[k].type = ObjectCode(k)
            /\ wmb.objects[k].name = KindOf(ObjectCode(k))

\* a world of six objects, one of each known type and one of type 9, was
\* decoded, and the object of type 9 is the sixth entry
C18_Witness ==
    /\ pc = "returned"
    /\ data = FullWorld
    /\ Len(wmb.objects) = 6
    /\ {wmb.objects[k].type : k \in 1..5} = {5, 1, 2, 3, 7}
    /\ wmb.objects[6].type = 9
    /\ wmb.objects[6].name = <<"TYPE", 9>>

\* the list a reader decodes, by the place of the load it runs at
LumpOf(p) ==
    CASE p = "wmb_textures" -> "textures"
      [] p = "wmb_texinfo" -> "materials"
      [] p = "wmb_vertices" -> "vertices"
      [] p = "wmb_edges" -> "edges"
      [] p = "wmb_faces" -> "faces"
      [] p = "wmb_materials" -> "materials"
      [] p = "wmb_lightmaps" -> "lightmaps"
      [] p = "wmb_blocks" -> "blocks"
      [] p = "wmb_objects" -> "objects"

\* the places of the load at which a reader runs
ReaderPlaces ==
    {"wmb_textures", "wmb_texinfo", "wmb_vertices", "wmb_edges", "wmb_faces",
     "wmb_materials", "wmb_lightmaps", "wmb_blocks", "wmb_objects"}

\* C19: a list whose entry of the directory has the length 0 is absent:
\* its reader leaves every collection of the world as it was and raises no
\* error, whatever the offset of the entry, an offset beyond the buffer
\* included (where any read of the buffer would raise); the surfedges, read
\* from the list 'skins' along with the faces, stay as they were likewise.
C19_AbsentLumpSkipped ==
    [][/\ (pc \in ReaderPlaces /\ List(LumpOf(pc)).length = 0) =>
            (wmb' = wmb /\ pc' # "raised" /\ exc' = exc)
       /\ (pc = "wmb_faces" /\ List("skins").length = 0) =>
            wmb'.surfedges = wmb.surfedges]_vars

\* a world was decoded to its end whose objects, textures and faces have
\* the length 0 and an offset beyond the buffer
C19_Witness ==
    /\ pc = "returned"
    /\ wmb.version = TagWMB6
    /\ \A name \in {"textures", "faces", "skins", "objects"} :
        /\ List(name).length = 0
        /\ List(name).offset = Far
        /\ List(name).offset > Len(data)
    /\ wmb.textures = <<>> /\ wmb.faces = <<>> /\ wmb.objects = <<>>

\* C20: the decoder consumes the buffer from the front to the back: in the
\* steps of one decode call, on every input, the malformed ones with negative
\* MDL7 counts of bones, groups or bone transforms included, the read offset
\* never decreases and is never negative.
C20_OffsetNeverGoesBack ==
    [][pc' # "constructed" => (offset' >= offset /\ offset' >= 0)]_vars

\* bytes per pixel and pixel kind of the low 3 bits of a skin type code
KindBpp(low) ==
    CASE low = 0 -> 1 [] low = 2 -> 2 [] low = 3 -> 2 [] low = 4 -> 3 [] low = 5 -> 4
KindStr(low) ==
    CASE low = 0 -> "single_8bit" [] low = 2 -> "single_16bit_565"
      [] low = 3 -> "single_16bit_4444" [] low = 4 -> "single_24bit_888"
      [] low = 5 -> "single_32bit_8888"

\* C21: for each skin of an MDL3, MDL4 or MDL5 file the decoder advances by
\* the 4 bytes of the type code, 8 bytes of width and height for MDL5 alone
\* (MDL3 and MDL4 take those of the header), the w*h*bpp bytes of the base
\* image and, when bit 3 of the code is set, the bytes of three mipmap levels
\* of the halved, quartered and eighthed size, which are not kept; bpp and
\* the pixel kind come from the low 3 bits of the code.
C21_SkinAdvance ==
    [][(pc = "mdl345_skins" /\ pc' # "raised" /\ U32(data, offset) % 8 \in {0, 2, 3, 4, 5}) =>
        LET t == U32(data, offset)
            is5 == mdl.header.ident = TagMDL5
            w == IF is5 THEN U32(data, offset + 4) ELSE mdl.header.skinwidth
            h == IF is5 THEN U32(data, offset + 8) ELSE mdl.header.skinheight
            bpp == KindBpp(t % 8)
            start == offset + 4 + (IF is5 THEN 8 ELSE 0)
            mips == ((w \div 2) * (h \div 2) + (w \div 4) * (h \div 4)
                     + (w \div 8) * (h \div 8)) * bpp
            skin == mdl'.skins[Len(mdl'.skins)]
        IN  /\ offset' = start + w * h * bpp + (IF (t \div 8) % 2 = 1 THEN mips ELSE 0)
            /\ Len(mdl'.skins) = Len(mdl.skins) + 1
            /\ skin.type = KindStr(t % 8) /\ skin.width = w /\ skin.height = h
            /\ skin.data = Slice(data, start, start + w * h * bpp)]_vars

\* an MDL5 file of one 8888 skin of 8x8 pixels with mipmaps was decoded to
\* its end: the skin holds the 256 bytes of the base image and the skin
\* vertex behind the 84 bytes of mipmaps was read
C21_Witness ==
    /\ pc = "returned"
    /\ data = MipFile(TagMDL5, 13, <<8, 8>>)
    /\ Len(mdl.skins) = 1
    /\ Len(mdl.skins[1].data) = 256
    /\ mdl.skinverts = <<<<1, 2>>>>
    /\ offset = Len(data)
    /\ offset = Mdl345HeaderSize + 12 + 256 + 84 + 4

\* the frame appended by a step of the frames loop, and the packed
\* component c of its vertex i as the layout of the frame type t places it
\* behind the frame that starts at off
NewFrame == mdl'.frames[Len(mdl'.frames)]
PackedAt(t, off, i, c) ==
    IF t = 0 THEN data[off + 4 + 4 + 4 + 16 + 4 * (i - 1) + c]
    ELSE U16(data, off + 4 + 8 + 8 + 16 + 8 * (i - 1) + 2 * (c - 1))

\* C22: the layout of a frame of an MDL3, MDL4 or MDL5 file follows its
\* frame type: type 0 is two bounding-box entries of 4 bytes, a name of 16
\* bytes and 4 bytes per vertex, type 2 two entries of 8 bytes, the name
\* and 8 bytes per vertex (three words and two bytes), so that a frame
\* takes 4 + 24 + 4 * num_verts or 4 + 32 + 8 * num_verts bytes.
C22_FrameLayout ==
    [][(pc = "mdl345_frames" /\ pc' # "raised" /\ U32(data, offset) \in {0, 2}) =>
        LET t == U32(data, offset)
            n == mdl.header.num_verts
            box == IF t = 0 THEN 4 ELSE 8
        IN  /\ offset' = offset + (IF t = 0 THEN 4 + 24 + 4 * n ELSE 4 + 32 + 8 * n)
            /\ Len(mdl'.frames) = Len(mdl.frames) + 1
            /\ NewFrame.name = StripNul(SubSeq(data, offset + 4 + 2 * box + 1,
                                               offset + 4 + 2 * box + 16))
            /\ Len(NewFrame.verts) = n
            /\ \A i \in 1..n : \A c \in 1..3 :
                NewFrame.verts[i][c] =
                    PackedAt(t, offset, i, c) * mdl.header.scale[c]
                    + mdl.header.translate[c]]_vars

\* a file of a byte-packed and a word-packed frame of MaxVerts vertices was
\* decoded to its end, which is 28 + 36 + 12 * MaxVerts bytes behind the
\* start of its frames
C22_Witness ==
    /\ pc = "returned"
    /\ data = GsSweepFile
    /\ Len(mdl.frames) = 2
    /\ mdl.header.num_verts = MaxVerts
    /\ Len(mdl.frames[1].verts) = MaxVerts /\ Len(mdl.frames[2].verts) = MaxVerts
    /\ mdl.frames[1].name # mdl.frames[2].name
    /\ offset = Len(data)

\* the counts of the summary that starts at off, and where the block that
\* starts at off ends when its records follow the summary one after the
\* other
CountsAt(off) == <<U32(data, off + 28), U32(data, off + 32), U32(data, off + 36)>>
BlockEnd(off) ==
    off + 40 + 28 * CountsAt(off)[1] + 12 * CountsAt(off)[2] + 20 * CountsAt(off)[3]

\* where block k of the blocks list starts when each starts right after
\* the one before it
RECURSIVE BlockStart(_)
BlockStart(k) ==
    IF k = 1 THEN List("blocks").offset + 4 ELSE BlockEnd(BlockStart(k - 1))

\* the worlds that hold blocks and are not cut short
BlockedWorlds == BlockWorlds \cup {Wmb7World}

\* C23: the blocks list decodes to as many blocks as its leading count;
\* each block takes 40 + 28 * num_verts + 12 * num_tris + 20 * num_skins
\* bytes in the order summary, vertices, triangles, skins, its vertices,
\* triangles and skins are as many as its summary counts, and the next
\* block starts right after it.
C23_BlocksContiguous ==
    (pc \in {"returned", "raised"} /\ data \in BlockedWorlds) =>
        /\ pc = "returned"
        /\ Len(wmb.blocks) = U32(data, List("blocks").offset)
        /\ \A k \in 1..Len(wmb.blocks) :
            LET b == wmb.blocks[k]
                off == BlockStart(k)
                voff == off + 40
                toff == voff + 28 * b.num_verts
                soff == toff + 12 * b.num_tris
            IN  /\ <<b.num_verts, b.num_tris, b.num_skins>> = CountsAt(off)
                /\ b.content = U32(data, off + 24)
                /\ Len(b.vertices) = b.num_verts
                /\ Len(b.triangles) = b.num_tris
                /\ Len(b.skins) = b.num_skins
                /\ \A i \in 1..b.num_verts :
                    /\ b.vertices[i].pos = F32x3(data, voff + 28 * (i - 1))
                    /\ b.vertices[i].lm_uv[2] = F32(data, voff + 28 * (i - 1) + 24)
                /\ \A i \in 1..b.num_tris :
                    /\ b.triangles[i].indices[1] = S16(data, toff + 12 * (i - 1))
                    /\ b.triangles[i].skin = S16(data, toff + 12 * (i - 1) + 6)
                /\ \A i \in 1..b.num_skins :
                    /\ b.skins[i].texture = S16(data, soff + 20 * (i - 1))
                    /\ b.skins[i].flags = U32(data, soff + 20 * (i - 1) + 16)
        /\ BlockEnd(BlockStart(Len(wmb.blocks))) = Len(data)

\* a world of three blocks of different shapes was decoded: the third block
\* starts 40 + 28 * 2 + 12 + 20 * 2 and 40 + 28 + 12 + 20 bytes behind the
\* first
C23_Witness ==
    /\ pc = "returned"
    /\ data = BlockWorld(<<<<2, 1, 2>>, <<1, 1, 1>>, <<1, 2, 0>>>>)
    /\ Len(wmb.blocks) = 3
    /\ BlockStart(3) = BlockStart(1) + 148 + 100
    /\ Len(wmb.blocks[3].triangles) = 2
    /\ wmb.blocks[3].triangles[2].skin = 1

\* the iterations e of a face whose surfedge position lies in the list and
\* whose surfedge is not 0 and names an edge of the list
Kept(f) ==
    {e \in 0..(f.num_verts - 1) :
        /\ f.first_edge + e < Len(f.surfedges)
        /\ f.surfedges[f.first_edge + e + 1] # 0
        /\ Abs(f.surfedges[f.first_edge + e + 1]) - 1 < Len(f.edges)}

\* C24: the rebuilding of a face reads no surfedge and no edge out of
\* range: a surfedge position beyond the list, a surfedge 0 and a surfedge
\* that names no edge are skipped, and the vertex list of a face of n
\* vertices has at most n + 1 entries, each an end of an edge of the list.
C24_FaceWithinRange ==
    face.done =>
        /\ Len(face.vertices) <= face.num_verts + 1
        /\ Len(face.vertices) =
             IF Kept(face) = {} THEN 0 ELSE Cardinality(Kept(face)) + 1
        /\ Len(face.contributions) = Cardinality(Kept(face))
        /\ \A j \in 1..Len(face.vertices) :
            \E k \in 1..Len(face.edges) :
                face.vertices[j] \in {face.edges[k][1], face.edges[k][2]}

\* a face was rebuilt whose last surfedge position lies beyond the list
\* and whose run holds a surfedge that is 0 or names no edge: both were
\* skipped and the one surfedge left gave two vertices
C24_Witness ==
    /\ face.done
    /\ face.first_edge + face.num_verts > Len(face.surfedges)
    /\ \E e \in 0..(face.num_verts - 1) :
        /\ face.first_edge + e < Len(face.surfedges)
        /\ \/ face.surfedges[face.first_edge + e + 1] = 0
           \/ Abs(face.surfedges[face.first_edge + e + 1]) > Len(face.edges)
    /\ Len(face.vertices) = 2

\* a skin type that holds pixel data: no material bit, and low 3 bits that
\* select a pixel kind
HoldsPixels(t) == (t \div 16) % 2 = 0 /\ t % 8 \in {0, 2, 3, 4, 5}

\* the skins of the groups of a file one after the other, each with its
\* place in its group
RECURSIVE SkinsInOrder(_)
SkinsInOrder(lists) ==
    IF lists = <<>> THEN <<>>
    ELSE [k \in 1..Len(Head(lists)) |-> [t |-> Head(lists)[k], k |-> k]]
         \o SkinsInOrder(Tail(lists))

\* the skins of them that hold pixel data
PixelSkins(lists) == SelectSeq(SkinsInOrder(lists), LAMBDA sk : HoldsPixels(sk.t))

\* the steps of the MDL7 decoder
Mdl7Places ==
    {"mdl7", "mdl7_bones", "mdl7_group", "mdl7_skins", "mdl7_mesh", "mdl7_frames",
     "mdl7_store"}

\* C25: a model decoded from an MDL7 file holds at most one skin: of the
\* skins of all groups only the first that holds pixel data (bpp, width
\* and height above 0) is stored, and the pixel bytes of every later skin
\* are consumed and not recorded, so that the decoding ends at the end of
\* the file.
C25_FirstSkinOnly ==
    /\ (pc \in Mdl7Places \/ mdl.header.ident = TagMDL7) => Len(mdl.skins) <= 1
    /\ \A lists \in Mdl7SkinLists :
        (pc \in {"returned", "raised"} /\ data = Mdl7SkinsFile(lists)) =>
            /\ pc = "returned"
            /\ offset = Len(data)
            /\ Len(mdl.triangles) = Len(lists) /\ Len(mdl.frames) = 1
            /\ IF PixelSkins(lists) = <<>> THEN mdl.skins = <<>>
               ELSE LET first == PixelSkins(lists)[1]
                    IN  /\ Len(mdl.skins) = 1
                        /\ mdl.skins[1].type = KindStr(first.t % 8)
                        /\ mdl.skins[1].width = SkinW /\ mdl.skins[1].height = SkinH
                        /\ mdl.skins[1].data =
                             Ramp(SkinW * SkinH * KindBpp(first.t % 8), 16 * first.k)

\* a file of three groups was decoded whose first group holds a 565 image
\* and whose third holds an 8888 and an 8-bit image: the 565 image alone is
\* in the model and the decoding ended at the end of the file
C25_Witness ==
    /\ pc = "returned"
    /\ data = Mdl7SkinsFile(<<<<2>>, <<16>>, <<5, 0>>>>)
    /\ Len(PixelSkins(<<<<2>>, <<16>>, <<5, 0>>>>)) = 3
    /\ Len(mdl.skins) = 1
    /\ mdl.skins[1].type = "single_16bit_565"
    /\ offset = Len(data)

\* the collections of a model and of a world
MdlCollections(m) == <<m.skins, m.texcoords, m.skinverts, m.triangles, m.frames>>
WmbCollections(w) ==
    <<w.textures, w.vertices, w.edges, w.faces, w.texinfo, w.blocks, w.objects>>

\* C26: when an instance that has decoded a file loads again, it holds the
\* data of the second file alone: its collections are those of a fresh
\* instance that loaded the second file.
C26_SecondLoadReplaces ==
    (pc = "returned" /\ prev.set /\ prev.exc = "none" /\ prev.data = data) =>
        /\ (prev.now = "mdl again" /\ prev.kind = "mdl") =>
             MdlCollections(mdl) = MdlCollections(prev.out)
        /\ (prev.now = "wmb again" /\ prev.kind = "wmb") =>
             WmbCollections(wmb) = WmbCollections(prev.out)

----------------------------------------------------------------------------
(* The Quake-only decoder, src/mdl_loader.py.  Its instances have no       *)
(* skinverts; the field of the record stays empty.                         *)

\* MDL.load: read the file, unpack the 84-byte header, check the ident
MDL_root_load(Inputs) ==
    /\ pc = "root_constructed"
    /\ \E d \in Inputs :
        /\ data' = d
        /\ IF ~CanUnpack(d, 0, IdpoHeaderSize)
           THEN Raise("struct.error") /\ UNCHANGED <<offset, idx, mdl, log>>
           ELSE LET h == [ident |-> SubSeq(d, 1, 4),
                          version |-> U32(d, 4),
                          scale |-> F32x3(d, 8),
                          translate |-> F32x3(d, 20),
                          num_skins |-> U32(d, 48),
                          skinwidth |-> U32(d, 52),
                          skinheight |-> U32(d, 56),
                          num_verts |-> U32(d, 60),
                          num_tris |-> U32(d, 64),
                          num_frames |-> U32(d, 68),
                          num_skinverts |-> 0]
                IN  /\ mdl' = [mdl EXCEPT !.header = h]
                    /\ offset' = IdpoHeaderSize
                    /\ idx' = 0
                    /\ exc' = "none"
                    /\ IF h.ident # TagIDPO
                       THEN pc' = "returned" /\ log' = log \cup {"Not a valid MDL file"}
                       ELSE pc' = Enter(RootOrder, 1, h) /\ UNCHANGED log
    /\ UNCHANGED outside

\* MDL.load: one iteration of the skins loop; a code other than 0 and 2 is
\* taken for a group of 8-bit skins
MDL_root_skin ==
    /\ pc = "root_skins"
    /\ LET h == mdl.header
           width == h.skinwidth
           height == h.skinheight
       IN  IF ~CanUnpack(data, offset, 4)
           THEN Raise("struct.error") /\ UNCHANGED <<offset, idx, mdl>>
           ELSE LET group == U32(data, offset)
                    off == offset + 4
                IN  IF group = 0
                    THEN /\ mdl' = [mdl EXCEPT !.skins =
                                        Append(@, SingleSkin("single_8bit", off, width * height))]
                         /\ offset' = off + width * height
                         /\ Advance(RootOrder, 1, h)
                         /\ UNCHANGED exc
                    ELSE IF group = 2
                    THEN /\ mdl' = [mdl EXCEPT !.skins =
                                        Append(@, SingleSkin("single_16bit", off, width * height * 2))]
                         /\ offset' = off + width * height * 2
                         /\ Advance(RootOrder, 1, h)
                         /\ UNCHANGED exc
                    ELSE IF ~CanUnpack(data, off, 4)
                    THEN Raise("struct.error") /\ offset' = off /\ UNCHANGED <<idx, mdl>>
                    ELSE LET nb == U32(data, off)
                             toff == off + 4
                             size == width * height
                             doff == toff + nb * 4
                         IN  IF nb > Len(data) \/ ~CanUnpack(data, toff, nb * 4)
                             THEN Raise("struct.error") /\ offset' = toff
                                  /\ UNCHANGED <<idx, mdl>>
                             ELSE /\ mdl' = [mdl EXCEPT !.skins = Append(@,
                                       [type |-> "group",
                                        times |-> [j \in 1..nb |-> F32(data, toff + 4 * (j - 1))],
                                        data |-> [j \in 1..nb |->
                                            Slice(data, doff + (j - 1) * size, doff + j * size)]])]
                                  /\ offset' = doff + nb * size
                                  /\ Advance(RootOrder, 1, h)
                                  /\ UNCHANGED exc
    /\ UNCHANGED <<data, log, outside>>

\* MDL.load: one (onseam, s, t) of 12 bytes
MDL_root_texcoord ==
    /\ pc = "root_texcoords"
    /\ IF ~CanUnpack(data, offset, 12)
       THEN Raise("struct.error") /\ UNCHANGED <<offset, idx, mdl>>
       ELSE /\ mdl' = [mdl EXCEPT !.texcoords =
                Append(@, <<U32(data, offset), U32(data, offset + 4), U32(data, offset + 8)>>)]
            /\ offset' = offset + 12
            /\ Advance(RootOrder, 2, mdl.header)
            /\ UNCHANGED exc
    /\ UNCHANGED <<data, log, outside>>

\* MDL.load: one (facesfront, v0, v1, v2) of 16 bytes
MDL_root_triangle ==
    /\ pc = "root_tris"
    /\ IF ~CanUnpack(data, offset, 16)
       THEN Raise("struct.error") /\ UNCHANGED <<offset, idx, mdl>>
       ELSE /\ mdl' = [mdl EXCEPT !.triangles =
                Append(@, <<U32(data, offset), U32(data, offset + 4),
                            U32(data, offset + 8), U32(data, offset + 12)>>)]
            /\ offset' = offset + 16
            /\ Advance(RootOrder, 3, mdl.header)
            /\ UNCHANGED exc
    /\ UNCHANGED <<data, log, outside>>

\* MDL.load: one iteration of the frames loop
MDL_root_frame ==
    /\ pc = "root_frames"
    /\ LET h == mdl.header
           num_verts == h.num_verts
       IN  IF ~CanUnpack(data, offset, 4)
           THEN Raise("struct.error") /\ UNCHANGED <<offset, idx, mdl, log>>
           ELSE IF U32(data, offset) # 0
           THEN \* group frame: print and return
                /\ log' = log \cup {"Group frame not implemented"}
                /\ offset' = offset + 4
                /\ pc' = "returned"
                /\ UNCHANGED <<idx, exc, mdl>>
           ELSE IF ~CanUnpack(data, offset + 4, 24)
           THEN Raise("struct.error") /\ offset' = offset + 4
                /\ UNCHANGED <<idx, mdl, log>>
           ELSE LET voff == offset + 28
                    verts_data == Slice(data, voff, voff + num_verts * 4)
                IN  /\ offset' = voff + num_verts * 4
                    /\ IF \E i \in 0..(num_verts - 1) : Len(PackedVert(verts_data, i)) < 3
                       THEN Raise("IndexError") /\ UNCHANGED <<idx, mdl, log>>
                       ELSE /\ mdl' = [mdl EXCEPT !.frames = Append(@,
                                [type |-> "single",
                                 name |-> StripNul(SubSeq(data, offset + 13, offset + 28)),
                                 bboxmin |-> SubSeq(data, offset + 5, offset + 8),
                                 bboxmax |-> SubSeq(data, offset + 9, offset + 12),
                                 verts |-> FrameVerts(verts_data, num_verts, h)])]
                            /\ Advance(RootOrder, 4, h)
                            /\ UNCHANGED <<exc, log>>
    /\ UNCHANGED <<data, outside>>

\* MDL.__init__ of src/mdl_loader.py
MDL_root_init ==
    /\ Finished
    /\ mdl' = MDL_new
    /\ pc' = "root_constructed"
    /\ exc' = "none"
    /\ log' = {}
    /\ offset' = 0
    /\ idx' = 0
    /\ UNCHANGED <<data, loc>>

----------------------------------------------------------------------------
(* One buffer given to both Quake-style decoders: first to MDL.load of     *)
(* src/viewer/mdl_loader.py, then to MDL.load of src/mdl_loader.py.        *)

BothInputs == IdpoFiles \cup TruncatedFiles \cup {UnknownTagFile}

InitBoth ==
    /\ data = <<>>
    /\ pc = "constructed"
    /\ offset = 0
    /\ idx = 0
    /\ exc = "none"
    /\ log = {}
    /\ mdl = MDL_new
    /\ prev = [NoPrev EXCEPT !.now = "viewer"]
    /\ geom = NoGeom
    /\ wmb = WMB_new
    /\ tris = <<>>
    /\ face = NoFace
    /\ loc = NoLoc
    /\ view = NoView

\* the decoder of the viewer is given a buffer
ViewerLoad == prev.now = "viewer" /\ MDL_load(BothInputs)

\* the decoder of the viewer is over: its outcome is kept and an instance of
\* the other decoder is made
RootNew ==
    /\ prev.now = "viewer"
    /\ MDL_root_init
    /\ prev' = [now |-> "root", set |-> TRUE, kind |-> "viewer", data |-> data,
                out |-> mdl, exc |-> exc, log |-> log]
    /\ UNCHANGED <<geom, wmb, tris, face, view>>

\* the other decoder is given the same buffer
RootLoad == prev.now = "root" /\ MDL_root_load({prev.data})

NextBoth ==
    \/ ViewerLoad
    \/ MDL_load_idpo_header
    \/ MDL_load_idpo_skin
    \/ MDL_load_idpo_texcoord
    \/ MDL_load_idpo_triangle
    \/ MDL_load_frames_idpo
    \/ RootNew
    \/ RootLoad
    \/ MDL_root_skin
    \/ MDL_root_texcoord
    \/ MDL_root_triangle
    \/ MDL_root_frame

SpecBoth == InitBoth /\ [][NextBoth]_vars

\* what the claim compares of a decoded model
QuakeParts(m) == <<m.header, m.skins, m.texcoords, m.triangles, m.frames>>

\* both decoders are over on one buffer tagged IDPO
BothOver ==
    /\ Finished
    /\ prev.now = "root"
    /\ Len(data) >= 4
    /\ SubSeq(data, 1, 4) = TagIDPO

\* C27: on every buffer tagged IDPO the two Quake-style decoders end in the
\* same outcome, both raising or both returning, and when they return they
\* hold equal header, skins, texcoords, triangles and frames.
C27_DecodersAgree ==
    BothOver =>
        /\ (exc = "none") <=> (prev.exc = "none")
        /\ exc = "none" => QuakeParts(mdl) = QuakeParts(prev.out)

\* the files whose skins are of the codes 0, 1, 2, whole or cut
QuakeCodeFiles ==
    {IdpoFile(sk, nv, nt, bad, ft) :
        sk \in SeqsUpTo(QuakeSkinCodes, MaxSkins), nv \in 0..MaxVerts, nt \in 0..MaxTris,
        bad \in BOOLEAN, ft \in FrameTypeSeqs}
    \cup {d \in TruncatedFiles : Len(d) >= 4}

\* on the files whose skins are of the codes 0, 1, 2 the two decoders agree
AgreeOnQuakeCodes ==
    (BothOver /\ data \in QuakeCodeFiles) =>
        /\ (exc = "none") <=> (prev.exc = "none")
        /\ exc = "none" => QuakeParts(mdl) = QuakeParts(prev.out)

\* both decoders returned the same model of a file with a group skin and a
\* frame
AgreeOnQuakeCodes_Witness ==
    /\ BothOver
    /\ data = IdpoFile(<<1>>, MaxVerts, MaxTris, FALSE, <<0>>)
    /\ exc = "none" /\ prev.exc = "none"
    /\ Len(mdl.skins) = 1 /\ mdl.skins[1].type = "group"
    /\ Len(mdl.frames) = 1
    /\ QuakeParts(mdl) = QuakeParts(prev.out)

----------------------------------------------------------------------------
(* FileNavigator, src/viewer/viewer_utils.py: the list of the files of a   *)
(* folder and the index of the current one.                                *)

\* the rows of the file list that are shown
visible_files == 20

\* switch_file with the index left as it is computed, not wrapped
switch_file_unwrapped(nav, delta) ==
    IF Len(nav.files) = 0 THEN [nav |-> nav, changed |-> FALSE]
    ELSE LET new_index == nav.current_index + delta
         IN  IF new_index # nav.current_index
             THEN [nav |-> [nav EXCEPT !.current_index = new_index], changed |-> TRUE]
             ELSE [nav |-> nav, changed |-> FALSE]

\* switch_file: the next or the previous file, cyclically
switch_file(nav, delta) ==
    IF Len(nav.files) = 0 THEN [nav |-> nav, changed |-> FALSE]
    ELSE LET new_index == (nav.current_index + delta) % Len(nav.files)
         IN  IF new_index # nav.current_index
             THEN [nav |-> [nav EXCEPT !.current_index = new_index], changed |-> TRUE]
             ELSE [nav |-> nav, changed |-> FALSE]

\* switch_to_index: the file at an index of the list other than the current
switch_to_index(nav, index) ==
    IF Len(nav.files) = 0 THEN [nav |-> nav, changed |-> FALSE]
    ELSE IF 0 <= index /\ index < Len(nav.files) /\ index # nav.current_index
         THEN [nav |-> [nav EXCEPT !.current_index = index], changed |-> TRUE]
         ELSE [nav |-> nav, changed |-> FALSE]

\* what handle_event returns and what it leaves of the navigator
Handled(nav, action) == [nav EXCEPT !.action = action]

\* ('switch', self.current_index) when the index changed, else (None, None)
Switched(sw) == Handled(sw.nav, IF sw.changed THEN "switch" ELSE "None")

\* handle_event: one pygame event
handle_event(nav, event) ==
    IF event.type = "KEYDOWN"
    THEN IF event.key = "K_ESCAPE" /\ nav.show_file_list
         THEN Handled([nav EXCEPT !.show_file_list = FALSE], "toggle_list")
         ELSE IF event.key = "K_LEFT" THEN Switched(switch_file(nav, -1))
         ELSE IF event.key = "K_RIGHT" THEN Switched(switch_file(nav, 1))
         ELSE IF event.key = "K_l"
         THEN Handled([nav EXCEPT !.show_file_list = ~nav.show_file_list,
                                  !.list_scroll_offset = Max(0, nav.current_index - 10)],
                      "toggle_list")
         ELSE IF event.key = "K_UP" /\ nav.show_file_list
         THEN Handled([nav EXCEPT !.list_scroll_offset = Max(0, nav.list_scroll_offset - 1)],
                      "None")
         ELSE IF event.key = "K_DOWN" /\ nav.show_file_list
         THEN LET max_scroll == Max(0, Len(nav.files) - 20)
              IN  Handled([nav EXCEPT !.list_scroll_offset =
                               Min(max_scroll, nav.list_scroll_offset + 1)], "None")
         ELSE IF event.key = "K_RETURN" /\ nav.show_file_list
         THEN Handled([nav EXCEPT !.show_file_list = FALSE], "toggle_list")
         ELSE IF event.key = "K_HOME" THEN Switched(switch_to_index(nav, 0))
         ELSE IF event.key = "K_END"
         THEN Switched(switch_to_index(nav, Len(nav.files) - 1))
         ELSE Handled(nav, "None")
    ELSE IF event.type = "MOUSEBUTTONDOWN"
    THEN IF event.button = 4 /\ nav.show_file_list
         THEN Handled([nav EXCEPT !.list_scroll_offset = Max(0, nav.list_scroll_offset - 3)],
                      "None")
         ELSE IF event.button = 5 /\ nav.show_file_list
         THEN LET max_scroll == Max(0, Len(nav.files) - 20)
              IN  Handled([nav EXCEPT !.list_scroll_offset =
                               Min(max_scroll, nav.list_scroll_offset + 3)], "None")
         ELSE IF nav.show_file_list /\ event.button = 1 /\ event.pos[1] < 320
         THEN LET max_y == 100 + visible_files * 22
                  clicked_idx == nav.list_scroll_offset + (event.pos[2] - 100) \div 22
                  sw == switch_to_index(nav, clicked_idx)
              IN  IF 100 <= event.pos[2] /\ event.pos[2] < max_y
                     /\ 0 <= clicked_idx /\ clicked_idx < Len(nav.files) /\ sw.changed
                  THEN Handled([sw.nav EXCEPT !.show_file_list = FALSE], "switch")
                  ELSE Handled(nav, "None")
         ELSE Handled(nav, "None")
    ELSE Handled(nav, "None")

\* FileNavigator.__init__: the sorted files of the folder, the first is current
FileNavigator_new(files) ==
    [NoView EXCEPT !.files = files, !.current_index = 0, !.show_file_list = FALSE,
                   !.list_scroll_offset = 0]

----------------------------------------------------------------------------
(* A navigator on its own: folders of 0 to 3 files and of 22, more than    *)
(* the list shows, and the events of the keyboard and of the mouse.        *)

NavCounts == {0, 1, 2, 3, 22}

NavKeys ==
    {"K_ESCAPE", "K_LEFT", "K_RIGHT", "K_l", "K_UP", "K_DOWN", "K_RETURN", "K_HOME",
     "K_END", "K_TAB"}

\* clicks on the first, second and last row of the list, above it, below it,
\* and to the right of it
NavClicks == {<<10, 99>>, <<10, 100>>, <<10, 122>>, <<10, 539>>, <<10, 540>>, <<320, 100>>}

NavEvents ==
    {[type |-> "KEYDOWN", key |-> k, button |-> 0, pos |-> <<0, 0>>] : k \in NavKeys}
    \cup {[type |-> "MOUSEBUTTONDOWN", key |-> "none", button |-> b, pos |-> p] :
              b \in {1, 3, 4, 5}, p \in NavClicks}
    \cup {[type |-> "MOUSEMOTION", key |-> "none", button |-> 0, pos |-> <<10, 100>>]}

InitNav ==
    /\ data = <<>>
    /\ pc = "nav_start"
    /\ offset = 0
    /\ idx = 0
    /\ exc = "none"
    /\ log = {}
    /\ mdl = MDL_new
    /\ prev = NoPrev
    /\ geom = NoGeom
    /\ wmb = WMB_new
    /\ tris = <<>>
    /\ face = NoFace
    /\ loc = NoLoc
    /\ view = NoView

\* FileNavigator(folder, extension, width, height) on a folder of n files
FileNavigator_init ==
    /\ pc = "nav_start"
    /\ \E n \in NavCounts : view' = FileNavigator_new([i \in 1..n |-> i])
    /\ pc' = "nav"
    /\ UNCHANGED <<data, offset, idx, exc, log, mdl, prev, geom, wmb, tris, face, loc>>

\* file_nav.handle_event(event)
FileNavigator_handle_event ==
    /\ pc = "nav"
    /\ \E e \in NavEvents : view' = [handle_event(view, e) EXCEPT !.event = e]
    /\ UNCHANGED <<data, pc, offset, idx, exc, log, mdl, prev, geom, wmb, tris, face, loc>>

NextNav ==
    \/ FileNavigator_init
    \/ FileNavigator_handle_event

SpecNav == InitNav /\ [][NextNav]_vars

\* the event of a key
KeyOf(v, k) == v.event.type = "KEYDOWN" /\ v.event.key = k

\* C30: a navigator of a non-empty list keeps 0 <= current_index < len(files)
\* over every handle_event call; Left and Right move the index cyclically by
\* one; the call returns 'switch' exactly when it changed the index, and so
\* never when the list has a single file.
C30_NavigatorIndex ==
    [][(pc = "nav" /\ Len(view.files) > 0) =>
         LET n == Len(view.files)
         IN  /\ 0 <= view'.current_index /\ view'.current_index < n
             /\ KeyOf(view', "K_LEFT") =>
                    view'.current_index = (view.current_index + n - 1) % n
             /\ KeyOf(view', "K_RIGHT") =>
                    view'.current_index = (view.current_index + 1) % n
             /\ (view'.action = "switch") <=> (view'.current_index # view.current_index)
             /\ n = 1 => view'.action # "switch"]_vars

\* Left was pressed on the first of three files: the last one is current and
\* the call returned 'switch'
C30_Witness ==
    /\ pc = "nav"
    /\ Len(view.files) = 3
    /\ KeyOf(view, "K_LEFT")
    /\ view.current_index = 2
    /\ view.action = "switch"
    /\ view.list_scroll_offset = 0 /\ ~view.show_file_list

----------------------------------------------------------------------------
(* WMBViewer, src/viewer/wmb_viewer.py: the files of a folder, loaded one  *)
(* at a time, and the batches draw_wmb6 draws.                             *)

\* the textures of the triangles, each once, in the order they first occur
RECURSIVE TexGroups(_, _)
TexGroups(triangles, seen) ==
    IF triangles = <<>> THEN <<>>
    ELSE IF Head(triangles).texture \in seen THEN TexGroups(Tail(triangles), seen)
    ELSE <<Head(triangles).texture>>
         \o TexGroups(Tail(triangles), seen \cup {Head(triangles).texture})

\* the triangles of one texture
RECURSIVE TrianglesOf(_, _)
TrianglesOf(triangles, tex_idx) ==
    IF triangles = <<>> THEN <<>>
    ELSE (IF Head(triangles).texture = tex_idx THEN <<Head(triangles)>> ELSE <<>>)
         \o TrianglesOf(Tail(triangles), tex_idx)

\* build_render_batches: one batch a texture, the three positions of every
\* triangle of it in a row.  The texcoords of a batch, float arithmetic on
\* the uvs, are left out.
build_render_batches(triangulated_faces) ==
    LET groups == TexGroups(triangulated_faces, {})
    IN  [g \in 1..Len(groups) |->
            LET group_tris == TrianglesOf(triangulated_faces, groups[g])
            IN  [texture_idx |-> groups[g],
                 positions |-> Flatten([k \in 1..Len(group_tris) |-> group_tris[k].vertices]),
                 vertex_count |-> Len(group_tris) * 3]]

\* triangulate_faces of the viewer: the fans of the faces of the world
triangulate_faces(w) == Flatten([k \in 1..Len(w.faces) |-> FaceTriangles(w.faces[k], w)])

\* self.wmb.version in [b'WMB4', b'WMB6']; the version stays None when the
\* buffer has no four bytes
IsWmb46(w, d) == IF Len(d) < 4 THEN FALSE ELSE w.version \in {TagWMB4, TagWMB6}

\* the file at the current index
current_file(nav) == nav.files[nav.current_index + 1]

\* WMBViewer.__init__: the navigator of the folder, nothing loaded yet
WMBViewer_init(Folders) ==
    /\ pc = "wv_start"
    /\ \E files \in Folders : view' = FileNavigator_new(files)
    /\ tris' = <<>>
    /\ pc' = "wv_load"
    /\ UNCHANGED <<data, offset, idx, exc, log, mdl, prev, geom, wmb, face, loc>>

\* load_current_file up to the load call: a fresh WMB, no error, no
\* triangles; nothing is drawn of the file yet
WMBViewer_load_current_file ==
    /\ pc = "wv_load"
    /\ wmb' = WMB_new
    /\ view' = [view EXCEPT !.load_error = FALSE, !.drawn = <<>>]
    /\ tris' = <<>>
    /\ pc' = "wmb_constructed"
    /\ exc' = "none"
    /\ log' = {}
    /\ offset' = 0
    /\ idx' = 0
    /\ data' = <<>>
    /\ loc' = NoLoc
    /\ UNCHANGED <<mdl, prev, geom, face>>

\* self.wmb.load(filename) of the current file
WMBViewer_load == pc = "wmb_constructed" /\ WMB_load({current_file(view)})

\* load_current_file after the load call: textures, then for a WMB4/WMB6
\* world the triangles and the batches; an exception of the load or of the
\* upload of a texture cut short sets load_error and builds nothing
WMBViewer_loaded ==
    /\ Finished
    /\ \E uploaded \in (IF pc = "raised" THEN {FALSE}
                        ELSE IF \A k \in 1..Len(wmb.textures) : Complete(wmb.textures[k])
                        THEN {TRUE} ELSE {TRUE, FALSE}) :
        IF uploaded /\ IsWmb46(wmb, data)
        THEN /\ tris' = triangulate_faces(wmb)
             /\ view' = [view EXCEPT !.render_batches =
                             build_render_batches(triangulate_faces(wmb))]
        ELSE /\ view' = [view EXCEPT !.load_error = ~uploaded]
             /\ UNCHANGED tris
    /\ pc' = "wv_idle"
    /\ UNCHANGED <<data, offset, idx, exc, log, mdl, prev, geom, wmb, face, loc>>

\* handle_input: the navigator takes the event; a switch loads the file
WMBViewer_handle_input(Events) ==
    /\ pc = "wv_idle"
    /\ \E e \in Events :
        /\ view' = [handle_event(view, e) EXCEPT !.event = e]
        /\ pc' = IF handle_event(view, e).action = "switch" THEN "wv_load" ELSE "wv_idle"
    /\ UNCHANGED <<data, offset, idx, exc, log, mdl, prev, geom, wmb, tris, face, loc>>

\* draw: draw_wmb6 for a WMB4/WMB6 world draws every batch of
\* render_batches; draw_wmb7 draws none of them
WMBViewer_draw ==
    /\ pc = "wv_idle"
    /\ view' = [view EXCEPT !.drawn =
                    IF IsWmb46(wmb, data) THEN view.render_batches ELSE <<>>]
    /\ UNCHANGED <<data, pc, offset, idx, exc, log, mdl, prev, geom, wmb, tris, face, loc>>

----------------------------------------------------------------------------
(* A WMB viewer on a folder: a WMB6 world, the same world cut short, a     *)
(* WMB4 world with textures, a WMB7 world and a file of no known version.  *)

RingWorld == World(TagWMB6, <<RingFace>>, FALSE)
CutRingWorld == Truncate(RingWorld, Len(RingWorld) - 1)
TexturedWorld == World(TagWMB4, <<RingFace>>, TRUE)
OneBlockWorld == BlockWorld(<<<<1, 1, 1>>>>)

WmbFolders ==
    {<<RingWorld, CutRingWorld>>,
     <<RingWorld, OneBlockWorld, TexturedWorld>>,
     <<UnknownVersionFile, RingWorld>>,
     <<CutRingWorld>>}

\* the keys of the navigator that the viewer is given
ViewerEvents ==
    {[type |-> "KEYDOWN", key |-> k, button |-> 0, pos |-> <<0, 0>>] :
        k \in {"K_LEFT", "K_RIGHT", "K_HOME", "K_END", "K_l", "K_ESCAPE"}}

InitWmbView ==
    /\ data = <<>>
    /\ pc = "wv_start"
    /\ offset = 0
    /\ idx = 0
    /\ exc = "none"
    /\ log = {}
    /\ mdl = MDL_new
    /\ prev = NoPrev
    /\ geom = NoGeom
    /\ wmb = WMB_new
    /\ tris = <<>>
    /\ face = NoFace
    /\ loc = NoLoc
    /\ view = NoView

WmbViewerNew == WMBViewer_init(WmbFolders)
WmbViewerInput == WMBViewer_handle_input(ViewerEvents)

NextWmbView ==
    \/ WmbViewerNew
    \/ WMBViewer_load_current_file
    \/ WMBViewer_load
    \/ WMB_load_lists
    \/ WMB_load_textures
    \/ WMB_load_wmb6_texinfo
    \/ WMB_load_wmb6_vertices
    \/ WMB_load_wmb6_edges
    \/ WMB_load_wmb6_faces
    \/ WMB_load_materials
    \/ WMB_load_lightmaps
    \/ WMB_load_blocks
    \/ WMB_load_objects
    \/ WMBViewer_loaded
    \/ WmbViewerInput
    \/ WMBViewer_draw

SpecWmbView == InitWmbView /\ [][NextWmbView]_vars

\* the batches built from the file that is current: those of its triangles
\* when it is a WMB4/WMB6 world that loaded, none otherwise
BatchesOfCurrent ==
    IF ~view.load_error /\ IsWmb46(wmb, data)
    THEN build_render_batches(triangulate_faces(wmb)) ELSE <<>>

Among(batches, built) == \A k \in 1..Len(batches) : \E j \in 1..Len(built) : batches[k] = built[j]

\* C28: after every load_current_file of WMBViewer, the first, one after a
\* switch, one that failed, render_batches holds only batches built from the
\* file that is current, and draw_wmb6 draws no geometry of a file loaded
\* before.
C28_BatchesOfCurrentFile ==
    pc = "wv_idle" =>
        /\ data = current_file(view)
        /\ Among(view.render_batches, BatchesOfCurrent)
        /\ Among(view.drawn, BatchesOfCurrent)

\* when the current file is a WMB4/WMB6 world that loaded, the batches are
\* those of its triangles
BatchesOfLoadedWorld ==
    (pc = "wv_idle" /\ ~view.load_error /\ IsWmb46(wmb, data)) =>
        /\ data = current_file(view)
        /\ view.render_batches = build_render_batches(triangulate_faces(wmb))
        /\ Among(view.drawn, BatchesOfCurrent)

\* the second world of a folder was loaded after the first and its batch of
\* three triangles is drawn
BatchesOfLoadedWorld_Witness ==
    /\ pc = "wv_idle"
    /\ view.files = <<UnknownVersionFile, RingWorld>>
    /\ view.current_index = 1
    /\ ~view.load_error
    /\ Len(view.render_batches) = 1
    /\ view.render_batches[1].vertex_count = 3 * (MaxLoop - 1)
    /\ view.drawn = view.render_batches

----------------------------------------------------------------------------
(* MDLViewer, src/mdl_viewer.py: the files of a folder, loaded one at a    *)
(* time, animated and drawn.  `from mdl_loader import MDL` is the decoder  *)
(* of src/ or the one of src/viewer/, as the module path has it: the       *)
(* viewer is run with either.                                              *)

\* bytes per pixel of the skins load_texture uploads; an 8-bit skin, a group
\* and no skin are not uploaded
UploadBpp(kind) ==
    CASE kind \in {"single_16bit", "single_16bit_565", "single_16bit_4444"} -> 2
      [] kind = "single_24bit_888" -> 3
      [] kind = "single_32bit_8888" -> 4
      [] OTHER -> 0

\* the first skin has the bytes it is uploaded with
SkinUploads(m) ==
    IF Len(m.skins) = 0 THEN TRUE
    ELSE IF UploadBpp(m.skins[1].type) = 0 THEN TRUE
    ELSE Len(m.skins[1].data) = m.header.skinwidth * m.header.skinheight
                                    * UploadBpp(m.skins[1].type)

\* self.mdl.frames = [{'verts': [], 'name': 'error'}]
ErrorFrames == <<[verts |-> <<>>, name |-> <<101, 114, 114, 111, 114>>]>>

\* the frames the animation can advance by in one pass of the loop
Advances == {0, 1, 2}

\* MDLViewer.__init__: the sorted files of the folder, the first is current
MDLViewer_init(Folders) ==
    /\ pc = "mv_start"
    /\ \E files \in Folders : view' = [NoView EXCEPT !.files = files]
    /\ pc' = "mv_load"
    /\ UNCHANGED <<data, offset, idx, exc, log, mdl, prev, geom, wmb, tris, face, loc>>

\* load_current_file up to the load call: a fresh MDL, no error; nothing is
\* drawn of the file yet
MDLViewer_load_current_file ==
    /\ pc = "mv_load"
    /\ mdl' = MDL_new
    /\ view' = [view EXCEPT !.load_error = FALSE, !.drawn = <<>>]
    /\ pc' \in {"constructed", "root_constructed"}
    /\ exc' = "none"
    /\ log' = {}
    /\ offset' = 0
    /\ idx' = 0
    /\ data' = <<>>
    /\ loc' = NoLoc
    /\ UNCHANGED <<prev, geom, wmb, tris, face>>

\* self.mdl.load(filename) of the current file, by either decoder
MDLViewer_load == pc = "constructed" /\ MDL_load({current_file(view)})
MDLViewer_load_root == pc = "root_constructed" /\ MDL_root_load({current_file(view)})

\* load_current_file after the load call: the texture and the zoom; an
\* exception of the load or of the upload of a skin cut short leaves one
\* error frame and no triangles; the animation starts at frame 0
MDLViewer_loaded ==
    /\ Finished
    /\ \E uploaded \in (IF pc = "raised" THEN {FALSE}
                        ELSE IF SkinUploads(mdl) THEN {TRUE} ELSE {TRUE, FALSE}) :
        /\ mdl' = IF uploaded THEN mdl
                  ELSE [mdl EXCEPT !.frames = ErrorFrames, !.triangles = <<>>]
        /\ view' = [view EXCEPT !.load_error = ~uploaded, !.frame_index = 0]
    /\ pc' = "mv_idle"
    /\ UNCHANGED <<data, offset, idx, exc, log, prev, geom, wmb, tris, face, loc>>

\* handle_input of one key: Left and Right switch cyclically, Home and End
\* switch to the first and the last file, and every switch loads
MDLViewer_handle_input ==
    /\ pc = "mv_idle"
    /\ \E key \in {"K_LEFT", "K_RIGHT", "K_HOME", "K_END", "K_l"} :
        LET n == Len(view.files)
            e == [type |-> "KEYDOWN", key |-> key, button |-> 0, pos |-> <<0, 0>>]
        IN  IF key = "K_l"
            THEN /\ view' = [view EXCEPT !.show_file_list = ~view.show_file_list,
                                 !.list_scroll_offset = Max(0, view.current_index - 10),
                                 !.event = e]
                 /\ pc' = "mv_idle"
            ELSE /\ view' = [view EXCEPT !.event = e, !.current_index =
                                 CASE key = "K_LEFT" -> (view.current_index - 1) % n
                                   [] key = "K_RIGHT" -> (view.current_index + 1) % n
                                   [] key = "K_HOME" -> 0
                                   [] key = "K_END" -> n - 1]
                 /\ pc' = "mv_load"
    /\ UNCHANGED <<data, offset, idx, exc, log, mdl, prev, geom, wmb, tris, face, loc>>

\* one pass of run after the input: the animation advances and wraps to 0
\* at the end of the frames, then draw takes int(frame_index) and the frame
\* after it modulo len(frames).  frame_index is its integer part here.
MDLViewer_run ==
    /\ pc = "mv_idle"
    /\ \E d \in Advances :
        LET advanced == view.frame_index + d
            frame_index == IF advanced >= Len(mdl.frames) THEN 0 ELSE advanced
        IN  IF Len(mdl.frames) = 0
            THEN /\ view' = [view EXCEPT !.frame_index = frame_index, !.drawn = <<>>,
                                         !.draw_exc = "ZeroDivisionError"]
                 /\ pc' = "mv_crashed"
            ELSE /\ view' = [view EXCEPT !.frame_index = frame_index,
                                 !.drawn = <<frame_index, (frame_index + 1) % Len(mdl.frames)>>]
                 /\ pc' = "mv_idle"
    /\ UNCHANGED <<data, offset, idx, exc, log, mdl, prev, geom, wmb, tris, face, loc>>

----------------------------------------------------------------------------
(* An MDL viewer on a folder: a model of two frames, the same file cut     *)
(* short, a file of no known tag, a model whose first frame is a group     *)
(* frame, and a model that declares no frame.                              *)

TwoFrameModel == IdpoFile(<<0>>, MaxVerts, MaxTris, FALSE, <<0, 0>>)
CutModel == Truncate(TwoFrameModel, Len(TwoFrameModel) - 2)
OneFrameModel == IdpoFile(<<>>, MaxVerts, MaxTris, FALSE, <<0>>)
GroupFrameModel == IdpoFile(<<0>>, MaxVerts, MaxTris, FALSE, <<1>>)
NoFrameModel == IdpoFile(<<0>>, MaxVerts, MaxTris, FALSE, <<>>)

\* the folders whose files all hold a simple frame, whole or cut
FramedFolders ==
    {<<TwoFrameModel>>, <<TwoFrameModel, CutModel, OneFrameModel>>, <<CutModel>>}

MdlFolders ==
    FramedFolders
    \cup {<<TwoFrameModel, UnknownTagFile>>, <<GroupFrameModel, OneFrameModel>>,
          <<NoFrameModel>>}

InitMdlView ==
    /\ data = <<>>
    /\ pc = "mv_start"
    /\ offset = 0
    /\ idx = 0
    /\ exc = "none"
    /\ log = {}
    /\ mdl = MDL_new
    /\ prev = NoPrev
    /\ geom = NoGeom
    /\ wmb = WMB_new
    /\ tris = <<>>
    /\ face = NoFace
    /\ loc = NoLoc
    /\ view = NoView

MdlViewerNew == MDLViewer_init(MdlFolders)

NextMdlView ==
    \/ MdlViewerNew
    \/ MDLViewer_load_current_file
    \/ MDLViewer_load
    \/ MDLViewer_load_root
    \/ MDL_load_idpo_header
    \/ MDL_load_idpo_skin
    \/ MDL_load_idpo_texcoord
    \/ MDL_load_idpo_triangle
    \/ MDL_load_frames_idpo
    \/ MDL_root_skin
    \/ MDL_root_texcoord
    \/ MDL_root_triangle
    \/ MDL_root_frame
    \/ MDLViewer_loaded
    \/ MDLViewer_handle_input
    \/ MDLViewer_run

SpecMdlView == InitMdlView /\ [][NextMdlView]_vars

\* a draw is due or has been attempted
AtDraw == pc \in {"mv_idle", "mv_crashed"}

\* C29: at every draw of MDLViewer, after any loads, switches and animation
\* ticks, mdl.frames is non-empty and int(frame_index) and the index of the
\* next frame are indices of mdl.frames, also after a file of an unknown tag
\* and after one whose first frame is a group frame.
C29_DrawIndices ==
    AtDraw =>
        /\ Len(mdl.frames) > 0
        /\ view.draw_exc = "none"
        /\ view.frame_index \in 0..(Len(mdl.frames) - 1)
        /\ \A k \in 1..Len(view.drawn) : view.drawn[k] \in 0..(Len(mdl.frames) - 1)

\* on the folders whose files all hold a simple frame the draws are within
\* the frames, the error frame of a failed load included
DrawIndicesOfFramed ==
    (AtDraw /\ view.files \in FramedFolders) =>
        /\ Len(mdl.frames) > 0
        /\ view.draw_exc = "none"
        /\ view.frame_index \in 0..(Len(mdl.frames) - 1)
        /\ \A k \in 1..Len(view.drawn) : view.drawn[k] \in 0..(Len(mdl.frames) - 1)

\* the last frame of a model of two frames was drawn with the first as the
\* next one, and the error frame of the file cut short was drawn
DrawIndicesOfFramed_Witness ==
    /\ pc = "mv_idle"
    /\ view.files = <<TwoFrameModel, CutModel, OneFrameModel>>
    /\ \/ view.current_index = 0 /\ Len(mdl.frames) = 2 /\ view.drawn = <<1, 0>>
       \/ view.current_index = 1 /\ mdl.frames = ErrorFrames /\ view.drawn = <<0, 0>>

====
